---- MODULE Spec2Model ----
(***************************************************************************)
(* Method and trait resolution of ra_hir_ty (method_resolution.rs):        *)
(* TyFingerprint, CrateImplDefs (fill / merge / impls_from_deps), the      *)
(* candidate search iterate_method_candidates and resolve_indexing_op.     *)
(***************************************************************************)
EXTENDS Integers, Sequences, FiniteSets, TLC

VARIABLES
    \* ---- inputs of one iterate_method_candidates / resolve_indexing_op call
    mode,             \* LookupMode: "MethodCall" | "Path" ("IndexOp" for resolve_indexing_op, "" when unused)
    ty,               \* the receiver, a Canonical<Ty>
    gen,              \* what autoderef::autoderef yields for the receiver
    traits_in_scope,  \* the FxHashSet<TraitId>, as the sequence its iterator yields
    name,             \* Option<&Name>
    \* ---- the position of the search in its loops
    pos,              \* [pc, i, v, k, c, n]: where the call is ("start", "inherent", "trait",
                      \* "index", "done", "off"), deref level, receiver variant, walk index,
                      \* container (impl or trait), item
    known_implemented,
    \* ---- what the search has done so far
    calls,            \* the callback invocations, in order
    queries,          \* the db.trait_solve queries, in order
    solved,           \* the answers of the trait solver so far (a memoized query)
    slot,             \* iterate_method_candidates' slot: Option of the accepted invocation
    ret,              \* Option of the value the call returned
    \* ---- TyFingerprint::for_impl
    fp_ty, fp_res,
    \* ---- one call of inherent_impl_substs and of transform_receiver_ty
    impl_arg,         \* the ImplId given to inherent_impl_substs
    fn_arg,           \* the FunctionId given to transform_receiver_ty
    self_ty_arg,      \* the Canonical<Ty> given to both
    substs_res,       \* Option of what inherent_impl_substs returned
    receiver_res,     \* Option of what transform_receiver_ty returned
    \* ---- CrateImplDefs::merge
    mA, mB, mC, mRes, mDone,
    \* ---- the impl queries of a crate graph
    deps, decl, own, from_deps,
    \* ---- CrateImplDefs::fill on one crate, and all_impls on what it built
    fill_impls,       \* the impls of the crate's modules, in the order of fill's loops
    fill_n,           \* how many of them the loops have gone through
    fill_res,         \* the CrateImplDefs being filled
    fill_all          \* Option of what all_impls yielded

searchVars == <<mode, ty, gen, traits_in_scope, name, pos, known_implemented,
                calls, queries, solved, slot, ret>>
fpVars == <<fp_ty, fp_res>>
substVars == <<impl_arg, fn_arg, self_ty_arg, substs_res, receiver_res>>
mergeVars == <<mA, mB, mC, mRes, mDone>>
graphVars == <<deps, decl, own, from_deps>>
fillVars == <<fill_impls, fill_n, fill_res, fill_all>>
vars == <<searchVars, fpVars, substVars, mergeVars, graphVars, fillVars>>

(***************************************************************************)
(* Option<T>                                                               *)
(***************************************************************************)
None == <<>>
Some(x) == <<x>>

(***************************************************************************)
(* Ty, Canonical<Ty>                                                       *)
(***************************************************************************)
TyApply(c, ps) == [kind |-> "Apply", ctor |-> c, idx |-> 0, params |-> ps]
apply_one(c, t) == TyApply(c, <<t>>)
TyBound(i) == [kind |-> "Bound", ctor |-> "", idx |-> i, params |-> <<>>]
TyPlaceholder(p) == [kind |-> "Placeholder", ctor |-> p, idx |-> 0, params |-> <<>>]
TyDyn(t) == [kind |-> "Dyn", ctor |-> t, idx |-> 0, params |-> <<>>]
TyUnknown == [kind |-> "Unknown", ctor |-> "", idx |-> 0, params |-> <<>>]
Canonical(v, n) == [value |-> v, num_vars |-> n]

RefShared == "Ref(Shared)"
RefMut == "Ref(Mut)"

\* The types of the fixture
TyS == TyApply("Adt(S)", <<>>)
TyW(t) == TyApply("Adt(W)", <<t>>)
TyWS == TyW(TyS)
TyRefS == apply_one(RefShared, TyS)
TyArrS == apply_one("Array", TyS)
TySliceS == apply_one("Slice", TyS)
TyTupleS == TyApply("Tuple", <<TyS, TyS>>)
TyBool == TyApply("Bool", <<>>)
TyPtrS == apply_one("RawPtr(Shared)", TyS)
TyP == TyPlaceholder("P")
TyDynT1 == TyDyn("T1")

(***************************************************************************)
(* TyFingerprint                                                           *)
(***************************************************************************)
for_impl(t) ==
    IF t.kind = "Apply" THEN Some(t.ctor) ELSE None

(***************************************************************************)
(* The database (db: &dyn HirDatabase): the fixture the queries answer     *)
(* from.                                                                   *)
(*   crate lib:  struct S; struct W<T>;                                    *)
(*     impl S      { fn bar(&self); fn make(); const K; fn rc(self: W<Self>) } *)
(*     impl<T> W<T>{ fn get(self); fn bar(&self) }                         *)
(*     trait T0 { fn top(&self); }                                         *)
(*     trait T1: T0 { fn bar(&self); fn make(); const K; type A; }         *)
(*     trait T2 { fn val(self); fn bar(&self); }                           *)
(*     impl T1 for &S {}      impl<T> T2 for T {}                          *)
(*     impl S {}              impl T1 for &W<S> {}                         *)
(*     impl W<bool> { fn flag(&self); fn of(w: W<S>) }                     *)
(*     impl dyn T1 { fn go(&self) }                                        *)
(*   crate core: #[lang = "slice"] impl<T> [T] { fn len(&self) }           *)
(*   crate dep:  impl<T> [T] { fn ext(&self) }                             *)
(*   app depends on lib, lib on core, core on dep                          *)
(***************************************************************************)
Traits == {"T0", "T1", "T2"}

InImpl(i) == [kind |-> "ImplId", impl |-> i, trait |-> ""]
InTrait(t) == [kind |-> "TraitId", impl |-> 0, trait |-> t]
Fn(nm, self, ps, g, c) ==
    [kind |-> "FunctionId", name |-> Some(nm), has_self_param |-> self,
     params |-> ps, generics |-> g, container |-> c]
Const(nm, c) ==
    [kind |-> "ConstId", name |-> nm, has_self_param |-> FALSE,
     params |-> <<>>, generics |-> 0, container |-> c]
TypeAlias(nm, c) ==
    [kind |-> "TypeAliasId", name |-> Some(nm), has_self_param |-> FALSE,
     params |-> <<>>, generics |-> 0, container |-> c]

\* db.function_data / db.const_data / callable_item_signature / lookup().container
ItemTable ==
    [S_bar     |-> Fn("bar", TRUE, <<apply_one(RefShared, TyS)>>, 0, InImpl(1)),
     S_make    |-> Fn("make", FALSE, <<>>, 0, InImpl(1)),
     S_K       |-> Const(Some("K"), InImpl(1)),
     S_rc      |-> Fn("rc", TRUE, <<TyW(TyS)>>, 0, InImpl(1)),
     W_get     |-> Fn("get", TRUE, <<TyW(TyBound(0))>>, 1, InImpl(2)),
     W_bar     |-> Fn("bar", TRUE, <<apply_one(RefShared, TyW(TyBound(0)))>>, 1, InImpl(2)),
     W_flag    |-> Fn("flag", TRUE, <<apply_one(RefShared, TyW(TyBool))>>, 0, InImpl(8)),
     W_of      |-> Fn("of", FALSE, <<TyW(TyS)>>, 0, InImpl(8)),
     slice_len |-> Fn("len", TRUE, <<apply_one(RefShared, apply_one("Slice", TyBound(0)))>>, 1, InImpl(3)),
     dyn_go    |-> Fn("go", TRUE, <<apply_one(RefShared, TyDynT1)>>, 0, InImpl(10)),
     slice_ext |-> Fn("ext", TRUE, <<apply_one(RefShared, apply_one("Slice", TyBound(0)))>>, 1, InImpl(9)),
     T1_bar    |-> Fn("bar", TRUE, <<apply_one(RefShared, TyBound(0))>>, 1, InTrait("T1")),
     T1_make   |-> Fn("make", FALSE, <<>>, 1, InTrait("T1")),
     T1_K      |-> Const(Some("K"), InTrait("T1")),
     T1_A      |-> TypeAlias("A", InTrait("T1")),
     T0_top    |-> Fn("top", TRUE, <<apply_one(RefShared, TyBound(0))>>, 1, InTrait("T0")),
     T2_val    |-> Fn("val", TRUE, <<TyBound(0)>>, 1, InTrait("T2")),
     T2_bar    |-> Fn("bar", TRUE, <<apply_one(RefShared, TyBound(0))>>, 1, InTrait("T2"))]

Items == DOMAIN ItemTable

\* db.impl_data(impl).items, db.impl_self_ty(impl), db.impl_trait(impl), the
\* number of generic parameters of the impl, and the crate that declares it
ImplTable ==
    <<[items |-> <<"S_bar", "S_make", "S_K", "S_rc">>, self_ty |-> TyS,
       trait |-> None, generics |-> 0, krate |-> "lib"],
      [items |-> <<"W_get", "W_bar">>, self_ty |-> TyW(TyBound(0)),
       trait |-> None, generics |-> 1, krate |-> "lib"],
      [items |-> <<"slice_len">>, self_ty |-> apply_one("Slice", TyBound(0)),
       trait |-> None, generics |-> 1, krate |-> "core"],
      [items |-> <<>>, self_ty |-> TyRefS,
       trait |-> Some("T1"), generics |-> 0, krate |-> "lib"],
      [items |-> <<>>, self_ty |-> TyBound(0),
       trait |-> Some("T2"), generics |-> 1, krate |-> "lib"],
      [items |-> <<>>, self_ty |-> TyS,
       trait |-> None, generics |-> 0, krate |-> "lib"],
      [items |-> <<>>, self_ty |-> apply_one(RefShared, TyWS),
       trait |-> Some("T1"), generics |-> 0, krate |-> "lib"],
      [items |-> <<"W_flag", "W_of">>, self_ty |-> TyW(TyBool),
       trait |-> None, generics |-> 0, krate |-> "lib"],
      [items |-> <<"slice_ext">>, self_ty |-> apply_one("Slice", TyBound(0)),
       trait |-> None, generics |-> 1, krate |-> "dep"],
      [items |-> <<"dyn_go">>, self_ty |-> TyDynT1,
       trait |-> None, generics |-> 0, krate |-> "lib"]>>

ImplIds == DOMAIN ImplTable

\* db.trait_data(t).items
trait_items(t) ==
    CASE t = "T1" -> <<"T1_bar", "T1_make", "T1_K", "T1_A">>
      [] t = "T2" -> <<"T2_val", "T2_bar">>
      [] t = "T0" -> <<"T0_top">>
      [] OTHER -> <<>>

\* all_super_traits(db, t): the trait itself, then its supertraits
all_super_traits(t) == IF t = "T1" THEN <<"T1", "T0">> ELSE <<t>>

\* def_id.module(db).krate
adt_krate(ctor) == "lib"

\* db.lang_item(cur_crate, name)
lang_item(nm) ==
    IF nm = "slice" THEN Some([kind |-> "ImplDefId", impl |-> 3])
    ELSE IF nm = "bool" THEN Some([kind |-> "TraitId", impl |-> 0])
    ELSE None

(***************************************************************************)
(* Sequence helpers                                                        *)
(***************************************************************************)
RECURSIVE Flatten(_)
Flatten(ss) == IF ss = <<>> THEN <<>> ELSE Head(ss) \o Flatten(Tail(ss))

Range(s) == {s[j] : j \in 1..Len(s)}

(***************************************************************************)
(* Ty::def_crates                                                          *)
(***************************************************************************)
lang_item_names(ctor) ==
    CASE ctor = "Bool" -> <<"bool">>
      [] ctor = "Char" -> <<"char">>
      [] ctor = "Float(X32)" -> <<"f32", "f32_runtime">>
      [] ctor = "Float(X64)" -> <<"f64", "f64_runtime">>
      [] ctor = "Int(i32)" -> <<"i32">>
      [] ctor = "Str" -> <<"str_alloc", "str">>
      [] ctor = "Slice" -> <<"slice_alloc", "slice">>
      [] ctor = "RawPtr(Shared)" -> <<"const_ptr">>
      [] ctor = "RawPtr(Mut)" -> <<"mut_ptr">>
      [] OTHER -> <<>>

LangCtors == {"Bool", "Char", "Float(X32)", "Float(X64)", "Int(i32)", "Str", "Slice",
              "RawPtr(Shared)", "RawPtr(Mut)"}
AdtCtors == {"Adt(S)", "Adt(W)"}

\* lang_item_crate!(names...) followed by the filter_map / map of lines 213-220
lang_item_crate(names) ==
    LET targets == Flatten([j \in 1..Len(names) |-> lang_item(names[j])])
        krates == [j \in 1..Len(targets) |->
                     IF targets[j].kind = "ImplDefId"
                     THEN <<ImplTable[targets[j].impl].krate>> ELSE <<>>]
    IN  Flatten(krates)

def_crates(t) ==
    IF t.kind # "Apply" THEN None
    ELSE IF t.ctor \in AdtCtors THEN Some(<<adt_krate(t.ctor)>>)
    ELSE IF t.ctor \in LangCtors THEN Some(lang_item_crate(lang_item_names(t.ctor)))
    ELSE None

(***************************************************************************)
(* CrateImplDefs: inherent_impls: TyFingerprint -> Vec<ImplId>,            *)
(* impls_by_trait: TraitId -> (Option<TyFingerprint> -> Vec<ImplId>).      *)
(* A map is a function on the keys it holds.                               *)
(***************************************************************************)
EmptyMap == [x \in {} |-> <<>>]
EmptyDefs == [inherent_impls |-> EmptyMap, impls_by_trait |-> EmptyMap]

\* map.entry(key).or_default()
EntryOrDefault(map, key, default) == IF key \in DOMAIN map THEN map[key] ELSE default

\* map with map[key] set to val
MapPut(map, key, val) ==
    [x \in DOMAIN map \cup {key} |-> IF x = key THEN val ELSE map[x]]

\* Vec::sort on a Vec<ImplId>
RECURSIVE SortInsert(_, _)
SortInsert(x, s) ==
    IF s = <<>> THEN <<x>>
    ELSE IF x <= Head(s) THEN <<x>> \o s
    ELSE <<Head(s)>> \o SortInsert(x, Tail(s))

RECURSIVE sort(_)
sort(s) == IF s = <<>> THEN <<>> ELSE SortInsert(Head(s), sort(Tail(s)))

\* Vec::dedup: removes consecutive repeated elements
RECURSIVE dedup(_)
dedup(s) ==
    IF Len(s) <= 1 THEN s
    ELSE IF s[1] = s[2] THEN dedup(Tail(s))
    ELSE <<Head(s)>> \o dedup(Tail(s))

\* One iteration of fill's loop: the impl `id`, whose trait and self type the
\* database gives
fill_one_every_impl_by_fingerprint(defs, id) ==
    LET tr == ImplTable[id].trait
        self_ty_fp == for_impl(ImplTable[id].self_ty)
        by_trait ==
            IF tr = None THEN defs.impls_by_trait
            ELSE LET m == EntryOrDefault(defs.impls_by_trait, tr[1], EmptyMap)
                 IN  MapPut(defs.impls_by_trait, tr[1],
                            MapPut(m, self_ty_fp, Append(EntryOrDefault(m, self_ty_fp, <<>>), id)))
        inherent ==
            IF self_ty_fp = None THEN defs.inherent_impls
            ELSE MapPut(defs.inherent_impls, self_ty_fp[1],
                        Append(EntryOrDefault(defs.inherent_impls, self_ty_fp[1], <<>>), id))
    IN  [inherent_impls |-> inherent, impls_by_trait |-> by_trait]

fill_one(defs, id) ==
    LET tr == ImplTable[id].trait
        self_ty_fp == for_impl(ImplTable[id].self_ty)
    IN  IF tr # None
        THEN LET m == EntryOrDefault(defs.impls_by_trait, tr[1], EmptyMap)
                 vec == EntryOrDefault(m, self_ty_fp, <<>>)
             IN  [defs EXCEPT !.impls_by_trait =
                     MapPut(@, tr[1], MapPut(m, self_ty_fp, Append(vec, id)))]
        ELSE IF self_ty_fp # None
             THEN [defs EXCEPT !.inherent_impls =
                     MapPut(@, self_ty_fp[1],
                            Append(EntryOrDefault(@, self_ty_fp[1], <<>>), id))]
             ELSE defs

\* CrateImplDefs::fill over the impls the crate's modules declare, in order
RECURSIVE fill(_, _)
fill(defs, impls) ==
    IF impls = <<>> THEN defs ELSE fill(fill_one(defs, Head(impls)), Tail(impls))

\* The bucket of `other` merged into the bucket of self: extend, sort, dedup
merge_vec_replace(vec, impls) == dedup(sort(impls))

merge_vec_no_dedup(vec, impls) == sort(vec \o impls)

merge_vec(vec, impls) == dedup(sort(vec \o impls))

merge_fp_map(map, other_map) ==
    [fp \in DOMAIN map \cup DOMAIN other_map |->
        IF fp \in DOMAIN other_map
        THEN merge_vec(EntryOrDefault(map, fp, <<>>), other_map[fp])
        ELSE map[fp]]

\* CrateImplDefs::merge
merge(self, other) ==
    [inherent_impls |-> merge_fp_map(self.inherent_impls, other.inherent_impls),
     impls_by_trait |->
        [t \in DOMAIN self.impls_by_trait \cup DOMAIN other.impls_by_trait |->
            IF t \in DOMAIN other.impls_by_trait
            THEN merge_fp_map(EntryOrDefault(self.impls_by_trait, t, EmptyMap),
                              other.impls_by_trait[t])
            ELSE self.impls_by_trait[t]]]

\* CrateImplDefs::lookup_impl_defs
lookup_impl_defs(defs, t) ==
    LET fingerprint == for_impl(t)
    IN  IF fingerprint = None THEN <<>>
        ELSE EntryOrDefault(defs.inherent_impls, fingerprint[1], <<>>)

\* The impls a crate of the fixture declares, in module order
ImplsDeclaredIn(krate) ==
    LET ids == [j \in 1..Len(ImplTable) |->
                  IF ImplTable[j].krate = krate THEN <<j>> ELSE <<>>]
    IN  Flatten(ids)

Crates == {"core", "lib", "app", "dep"}

\* db.crate_graph()[krate].dependencies for the fixture
crate_graph == [app |-> <<"lib">>, lib |-> <<"core">>, core |-> <<"dep">>, dep |-> <<>>]

\* db.impls_in_crate(krate) for the fixture: impls_in_crate_query, memoized
impls_in_crate_query == [krate \in Crates |-> fill(EmptyDefs, ImplsDeclaredIn(krate))]

impls_in_crate(krate) == impls_in_crate_query[krate]

\* db.impls_from_deps(krate) for the fixture: impls_from_deps_query
RECURSIVE impls_from_deps_query(_)
RECURSIVE merge_each_dependency(_, _)
impls_from_deps_query(krate) == merge_each_dependency(EmptyDefs, crate_graph[krate])

merge_each_dependency(res, dependencies) ==
    IF dependencies = <<>> THEN res
    ELSE merge_each_dependency(
            merge(merge(res, impls_from_deps_query(Head(dependencies))),
                  impls_in_crate(Head(dependencies))),
            Tail(dependencies))

\* "The full set of impls that can be used by krate": impls_from_deps plus
\* the impls of krate itself
impls_usable_by(krate) == merge(impls_from_deps_query(krate), impls_in_crate(krate))

(***************************************************************************)
(* Substitution and unification                                            *)
(***************************************************************************)
\* Ty::subst_bound_vars / Ty::subst (the fixture's types hold no binders)
RECURSIVE subst_bound_vars(_, _)
subst_bound_vars(t, substs) ==
    IF t.kind = "Bound"
    THEN IF t.idx < Len(substs) THEN substs[t.idx + 1] ELSE t
    ELSE IF t.kind = "Apply"
    THEN [t EXCEPT !.params = [j \in 1..Len(t.params) |-> subst_bound_vars(t.params[j], substs)]]
    ELSE t

\* The inference table of infer::unify: sub[i + 1] is what variable i is bound to,
\* the variable itself while it is unbound
RECURSIVE resolve_ty_shallow(_, _)
resolve_ty_shallow(t, sub) ==
    IF t.kind = "Bound" /\ t.idx < Len(sub) /\ sub[t.idx + 1] # t
    THEN resolve_ty_shallow(sub[t.idx + 1], sub)
    ELSE t

RECURSIVE resolve_ty_completely(_, _)
resolve_ty_completely(t, sub) ==
    LET r == resolve_ty_shallow(t, sub)
    IN  IF r.kind = "Apply"
        THEN [r EXCEPT !.params = [j \in 1..Len(r.params) |-> resolve_ty_completely(r.params[j], sub)]]
        ELSE r

RECURSIVE unify_inner(_, _, _)
RECURSIVE unify_params(_, _, _, _)
unify_inner(a, b, st) ==
    IF ~st.ok THEN st
    ELSE LET x == resolve_ty_shallow(a, st.sub)
             y == resolve_ty_shallow(b, st.sub)
         IN  IF x = y THEN st
             ELSE IF x.kind = "Unknown" \/ y.kind = "Unknown" THEN st
             ELSE IF x.kind = "Bound" THEN [st EXCEPT !.sub[x.idx + 1] = y]
             ELSE IF y.kind = "Bound" THEN [st EXCEPT !.sub[y.idx + 1] = x]
             ELSE IF /\ x.kind = "Apply" /\ y.kind = "Apply" /\ x.ctor = y.ctor
                     /\ Len(x.params) = Len(y.params)
                  THEN unify_params(x.params, y.params, 1, st)
             ELSE [st EXCEPT !.ok = FALSE]

unify_params(xs, ys, j, st) ==
    IF j > Len(xs) THEN st
    ELSE unify_params(xs, ys, j + 1, unify_inner(xs[j], ys[j], st))

\* infer::unify(ty1, ty2): Option<Substs>, the solution of ty1's variables
unify(ty1, ty2) ==
    LET num_vars == IF ty1.num_vars >= ty2.num_vars THEN ty1.num_vars ELSE ty2.num_vars
        st == unify_inner(ty1.value, ty2.value,
                          [ok |-> TRUE, sub |-> [j \in 1..num_vars |-> TyBound(j - 1)]])
    IN  IF ~st.ok THEN None
        ELSE Some([j \in 1..ty1.num_vars |-> resolve_ty_completely(TyBound(j - 1), st.sub)])

\* fallback_bound_vars: a Bound var with index >= num_vars_to_keep becomes Unknown
RECURSIVE fallback_ty(_, _)
fallback_ty(t, num_vars_to_keep) ==
    IF t.kind = "Bound"
    THEN IF t.idx >= num_vars_to_keep THEN TyUnknown ELSE t
    ELSE IF t.kind = "Apply"
    THEN [t EXCEPT !.params = [j \in 1..Len(t.params) |-> fallback_ty(t.params[j], num_vars_to_keep)]]
    ELSE t

fallback_bound_vars_keep_all(s, num_vars_to_keep) == s

fallback_bound_vars(s, num_vars_to_keep) ==
    [j \in 1..Len(s) |-> fallback_ty(s[j], num_vars_to_keep)]

\* Substs::suffix(n): the last n entries
suffix(s, n) == SubSeq(s, Len(s) - n + 1, Len(s))

inherent_impl_substs_no_unify(impl_id, self_ty) ==
    Some([j \in 1..ImplTable[impl_id].generics |-> TyUnknown])

inherent_impl_substs(impl_id, self_ty) ==
    LET n == ImplTable[impl_id].generics
        vs == [j \in 1..n |-> TyBound(self_ty.num_vars + j - 1)]
        self_ty_with_vars ==
            Canonical(subst_bound_vars(ImplTable[impl_id].self_ty, vs), n + self_ty.num_vars)
        substs == unify(self_ty_with_vars, self_ty)
    IN  IF substs = None THEN None
        ELSE Some(fallback_bound_vars(suffix(substs[1], n), self_ty.num_vars))

\* What reading params()[0] of a signature without parameters ends in
TyPanic == [kind |-> "Panic", ctor |-> "index out of bounds", idx |-> 0, params |-> <<>>]

transform_receiver_ty_by_value(function_id, self_ty) == Some(self_ty.value)

transform_receiver_ty_self_param_only(function_id, self_ty) ==
    LET f == ItemTable[function_id]
        substs ==
            IF f.container.kind = "TraitId"
            THEN Some(<<self_ty.value>> \o [j \in 1..(f.generics - 1) |-> TyUnknown])
            ELSE inherent_impl_substs(f.container.impl, self_ty)
    IN  IF substs = None \/ ~f.has_self_param THEN None
        ELSE Some(subst_bound_vars(f.params[1], substs[1]))

transform_receiver_ty(function_id, self_ty) ==
    LET f == ItemTable[function_id]
        substs ==
            IF f.container.kind = "TraitId"
            THEN Some(<<self_ty.value>> \o [j \in 1..(f.generics - 1) |-> TyUnknown])
            ELSE inherent_impl_substs(f.container.impl, self_ty)
    IN  IF substs = None THEN None
        ELSE IF f.params = <<>> THEN Some(TyPanic)
        ELSE Some(subst_bound_vars(f.params[1], substs[1]))

\* Whether is_valid_candidate, given this item, gets to its call of
\* transform_receiver_ty: a function, the name filter passed, a receiver type
\* given, and not returned at `if !data.has_self_param`
calls_transform_receiver_ty_without_self_check(nm, receiver_ty, item) ==
    LET data == ItemTable[item]
    IN  /\ data.kind = "FunctionId"
        /\ (nm = None \/ data.name = nm)
        /\ receiver_ty # None

calls_transform_receiver_ty(nm, receiver_ty, item) ==
    LET data == ItemTable[item]
    IN  /\ data.kind = "FunctionId"
        /\ (nm = None \/ data.name = nm)
        /\ receiver_ty # None
        /\ data.has_self_param

is_valid_candidate_name_only(nm, receiver_ty, item, self_ty) ==
    LET data == ItemTable[item]
    IN  data.kind \in {"FunctionId", "ConstId"} /\ (nm = None \/ data.name = nm)

is_valid_candidate(nm, receiver_ty, item, self_ty) ==
    LET data == ItemTable[item]
    IN  CASE data.kind = "FunctionId" ->
               IF nm # None /\ data.name # nm THEN FALSE
               ELSE IF receiver_ty # None
               THEN IF ~data.has_self_param THEN FALSE
                    ELSE LET transformed_receiver_ty == transform_receiver_ty(item, self_ty)
                         IN  IF transformed_receiver_ty = None THEN FALSE
                             ELSE transformed_receiver_ty[1] = receiver_ty[1].value
               ELSE TRUE
          [] data.kind = "ConstId" ->
               (nm = None \/ data.name = nm) /\ receiver_ty = None
          [] OTHER -> FALSE

(***************************************************************************)
(* The trait solver: db.trait_solve(krate, generic_implements_goal(t, ty)) *)
(* is a memoized query of an external solver: its answer for a goal is     *)
(* free the first time the goal is asked and the same ever after.          *)
(***************************************************************************)
Goal(t, self_ty) == <<t, self_ty>>

\* Option<Solution>
Solutions == {None, Some("Unique")}

TraitSolveAnswers(goal) ==
    IF goal \in DOMAIN solved THEN {solved[goal]} ELSE Solutions

\* Option::is_none of the solver's answer
is_none_always(answer) == FALSE

is_none(answer) == answer = None

(***************************************************************************)
(* autoderef_method_receiver                                               *)
(***************************************************************************)
autoderef_method_receiver_no_unsize(g) == g

autoderef_method_receiver_no_vars(g) ==
    IF g # <<>> /\ g[Len(g)].value.kind = "Apply" /\ g[Len(g)].value.ctor = "Array"
    THEN Append(g, Canonical(TyApply("Slice", g[Len(g)].value.params), 0))
    ELSE g

autoderef_method_receiver(g) ==
    IF g # <<>> /\ g[Len(g)].value.kind = "Apply" /\ g[Len(g)].value.ctor = "Array"
    THEN Append(g, Canonical(TyApply("Slice", g[Len(g)].value.params), g[Len(g)].num_vars))
    ELSE g

(***************************************************************************)
(* The candidate search: iterate_method_candidates                         *)
(***************************************************************************)
\* The fixture's TraitEnvironment: where P: T2
env_predicates == <<[self_ty |-> TyP, trait_ |-> "T2"]>>

\* env.trait_predicates_for_self_ty(ty).map(|tr| tr.trait_)
trait_predicates_for_self_ty(t) ==
    Flatten([j \in 1..Len(env_predicates) |->
               IF env_predicates[j].self_ty = t THEN <<env_predicates[j].trait_>> ELSE <<>>])

\* The deref_chain of iterate_method_candidates_impl (a method call's only)
\* and of resolve_indexing_op
deref_chain ==
    IF mode \in {"MethodCall", "IndexOp"} THEN autoderef_method_receiver(gen) ELSE <<>>

\* The receiver variants of iterate_method_candidates_with_autoref at deref
\* level i: 1 by value, 2 shared autoref, 3 mutable autoref
refed(c, mutability) == Canonical(apply_one(mutability, c.value), c.num_vars)

\* receiver_ty as iterate_inherent_methods / iterate_trait_method_candidates get
\* it: none for a path lookup (variant 0)
ReceiverTy(p) ==
    CASE p.v = 0 -> None
      [] p.v = 1 -> Some(deref_chain[p.i])
      [] p.v = 2 -> Some(refed(deref_chain[p.i], RefShared))
      [] p.v = 3 -> Some(refed(deref_chain[p.i], RefMut))

rest_of_deref_chain_whole(p) == deref_chain

rest_of_deref_chain(p) ==
    SubSeq(deref_chain, IF p.v = 1 THEN p.i + 1 ELSE p.i, Len(deref_chain))

\* The self types one call of iterate_method_candidates_by_receiver goes through
\* (once(receiver_ty).chain(rest_of_deref_chain)), or the one self type of
\* iterate_method_candidates_for_self_ty
WalkPathDerefs(p) ==
    IF p.v = 0
    THEN IF ty.value.kind = "Apply" /\ ty.value.ctor = RefShared
         THEN <<ty, Canonical(ty.value.params[1], ty.num_vars)>> ELSE <<ty>>
    ELSE <<ReceiverTy(p)[1]>> \o rest_of_deref_chain(p)

WalkDerefsOnly(p) ==
    IF p.v = 0 THEN <<ty>> ELSE <<deref_chain[p.i]>> \o rest_of_deref_chain(p)

Walk(p) ==
    IF p.v = 0 THEN <<ty>> ELSE <<ReceiverTy(p)[1]>> \o rest_of_deref_chain(p)

SelfTy(p) == Walk(p)[p.k]

\* The impls iterate_inherent_methods goes through at a self type: for each
\* defining crate, impls_in_crate(krate).lookup_impl_defs(self_ty)
InherentImplsInWithDeps(krates, self_ty) ==
    IF krates = None THEN <<>>
    ELSE Flatten([j \in 1..Len(krates[1]) |->
                    lookup_impl_defs(impls_usable_by(krates[1][j]), self_ty.value)])

InherentImplsIn(krates, self_ty) ==
    IF krates = None THEN <<>>
    ELSE Flatten([j \in 1..Len(krates[1]) |->
                    lookup_impl_defs(impls_in_crate(krates[1][j]), self_ty.value)])

InherentImpls(self_ty) == InherentImplsIn(def_crates(self_ty.value), self_ty)

\* The traits iterate_trait_method_candidates goes through at a self type
EnvTraits(ts) == Flatten([j \in 1..Len(ts) |-> all_super_traits(ts[j])])

TraitUniverseScopeFirst(self_ty) ==
    traits_in_scope
    \o (IF self_ty.value.kind = "Dyn" THEN all_super_traits(self_ty.value.ctor) ELSE <<>>)
    \o (IF self_ty.value.kind = "Placeholder"
        THEN EnvTraits(trait_predicates_for_self_ty(self_ty.value)) ELSE <<>>)

TraitUniverse(self_ty) ==
    (IF self_ty.value.kind = "Dyn" THEN all_super_traits(self_ty.value.ctor) ELSE <<>>)
    \o (IF self_ty.value.kind = "Placeholder"
        THEN EnvTraits(trait_predicates_for_self_ty(self_ty.value)) ELSE <<>>)
    \o traits_in_scope

\* The impls (inherent loop) or traits (trait loop) scanned at a self type
ContainersAt(loop, self_ty) ==
    IF loop = "inherent" THEN InherentImpls(self_ty) ELSE TraitUniverse(self_ty)

\* db.impl_data(impl).items / db.trait_data(t).items
ItemsIn(loop, container) ==
    IF loop = "inherent" THEN ImplTable[container].items ELSE trait_items(container)

Containers(p) == ContainersAt(p.pc, SelfTy(p))

Container(p) == Containers(p)[p.c]

Item(p) == ItemsIn(p.pc, Container(p))[p.n]

Done(p) == [p EXCEPT !.pc = "done"]

\* iterate_method_candidates_impl, the MethodCall arm: the next deref level, or
\* false after the last
NextLevelOnlyFirst(p) ==
    IF p.i < 1
    THEN [pc |-> "inherent", i |-> p.i + 1, v |-> 1, k |-> 1, c |-> 1, n |-> 1]
    ELSE Done(p)

NextLevel(p) ==
    IF p.i < Len(deref_chain)
    THEN [pc |-> "inherent", i |-> p.i + 1, v |-> 1, k |-> 1, c |-> 1, n |-> 1]
    ELSE Done(p)

\* iterate_method_candidates_with_autoref: the next receiver variant once
\* iterate_method_candidates_by_receiver returned false; a path lookup has one
NextVariantMutFirst(p) ==
    IF p.v = 0 THEN Done(p)
    ELSE IF p.v = 1 THEN [pc |-> "inherent", i |-> p.i, v |-> 3, k |-> 1, c |-> 1, n |-> 1]
    ELSE IF p.v = 3 THEN [pc |-> "inherent", i |-> p.i, v |-> 2, k |-> 1, c |-> 1, n |-> 1]
    ELSE NextLevel(p)

NextVariant(p) ==
    IF p.v = 0 THEN Done(p)
    ELSE IF p.v < 3
    THEN [pc |-> "inherent", i |-> p.i, v |-> p.v + 1, k |-> 1, c |-> 1, n |-> 1]
    ELSE NextLevel(p)

\* iterate_method_candidates_by_receiver / _for_self_ty: after the inherent
\* loop over the self types the trait loop over the same self types, and after
\* that the call returns false
NextLoop(p) ==
    IF p.pc = "inherent" THEN [p EXCEPT !.pc = "trait", !.k = 1, !.c = 1, !.n = 1]
    ELSE NextVariant(p)

\* The filters an item passes before anything is asked or called: the
\* `continue`s of iterate_inherent_methods (is_valid_candidate, and for a
\* path lookup inherent_impl_substs) and of iterate_trait_method_candidates
PassesValidOnly(loop, receiver_ty, self_ty, container, item) ==
    is_valid_candidate(name, receiver_ty, item, self_ty)

Passes(loop, receiver_ty, self_ty, container, item) ==
    /\ is_valid_candidate(name, receiver_ty, item, self_ty)
    /\ \/ loop # "inherent"
       \/ receiver_ty # None
       \/ inherent_impl_substs(container, self_ty) # None

\* The items of container c of the scan of self type k that pass
PassingItems(loop, receiver_ty, self_ty, container, items, k, c) ==
    {<<k, c, n>> : n \in {m \in 1..Len(items) :
                            Passes(loop, receiver_ty, self_ty, container, items[m])}}

\* The items of the scan of self type k that pass
ScanCands(loop, receiver_ty, self_ty, containers, k) ==
    UNION {PassingItems(loop, receiver_ty, self_ty, containers[c],
                        ItemsIn(loop, containers[c]), k, c) : c \in 1..Len(containers)}

\* The items of the loop over the self types that pass, from p on
LoopCandsIn(p, receiver_ty, walk) ==
    {x \in UNION {ScanCands(p.pc, receiver_ty, walk[k], ContainersAt(p.pc, walk[k]), k) :
                    k \in p.k..Len(walk)} :
        \/ x[1] > p.k
        \/ x[1] = p.k /\ x[2] > p.c
        \/ x[1] = p.k /\ x[2] = p.c /\ x[3] >= p.n}

LoopCands(p) == LoopCandsIn(p, ReceiverTy(p), Walk(p))

Before(x, y) ==
    \/ x[1] < y[1]
    \/ x[1] = y[1] /\ x[2] < y[2]
    \/ x[1] = y[1] /\ x[2] = y[2] /\ x[3] <= y[3]

AtCand(p, x) == [p EXCEPT !.k = x[1], !.c = x[2], !.n = x[3]]

\* The loops run on to the next item that passes the filters: of this loop
\* over the self types (nearest self type first, its impls or traits in order,
\* their items in order), else of the loops that follow
RECURSIVE Norm(_)
RECURSIVE NormIn(_, _)
Norm(p) ==
    IF p.pc \notin {"inherent", "trait"} THEN p ELSE NormIn(p, LoopCands(p))

NormIn(p, cands) ==
    IF cands = {} THEN Norm(NextLoop(p))
    ELSE AtCand(p, CHOOSE x \in cands : \A y \in cands : Before(x, y))

NextItem(p) == Norm([p EXCEPT !.n = @ + 1])

\* `continue 'traits`
NextTrait(p) == Norm([p EXCEPT !.c = @ + 1, !.n = 1])

\* What the search does with the callback's answer: `return true` up to
\* iterate_method_candidates, or on to the next item
AfterCallbackNoStop(p, accepted) == NextItem(p)

AfterCallbackSkipInherent(p, accepted) ==
    IF accepted THEN Done(p)
    ELSE IF p.pc = "inherent" THEN Norm(NextLoop(p)) ELSE NextItem(p)

AfterCallback(p, accepted) == IF accepted THEN Done(p) ELSE NextItem(p)

\* known_implemented is a local of one trait's iteration
SameTraitNever(p, q) == FALSE

SameTrait(p, q) ==
    /\ q.pc = "trait" /\ p.pc = "trait"
    /\ <<p.i, p.v, p.k, p.c>> = <<q.i, q.v, q.k, q.c>>

\* One invocation of the closure iterate_method_candidates passes down
\* (assert!(slot.is_none()); slot = callback(ty, item); slot.is_some())
Invocation(p, self_ty, item, accepted, trait) ==
    [ty |-> self_ty.value, self_ty |-> self_ty, item |-> item, accepted |-> accepted,
     slot_is_none |-> (slot = None), kind |-> p.pc, i |-> p.i, v |-> p.v, k |-> p.k,
     c |-> p.c, trait |-> trait]

CallbackSlot(self_ty, item, accepted) ==
    IF accepted THEN Some([ty |-> self_ty.value, item |-> item]) ELSE None

\* Where iterate_method_candidates_impl begins: before the first deref level
\* of a method call, at the one self type of a path lookup
Entry ==
    IF mode = "MethodCall"
    THEN Norm(NextLevel([pc |-> "inherent", i |-> 0, v |-> 1, k |-> 1, c |-> 1, n |-> 1]))
    ELSE Norm([pc |-> "inherent", i |-> 1, v |-> 0, k |-> 1, c |-> 1, n |-> 1])

\* iterate_method_candidates returns its slot
Returned(p, sl) == IF p.pc = "done" THEN Some(sl) ELSE None

\* iterate_method_candidates is called: the deref chain is built and the loops
\* run to the first item that passes
Start ==
    /\ pos.pc = "start"
    /\ UNCHANGED <<mode, ty, gen, traits_in_scope, name, calls, queries, solved, slot>>
    /\ pos' = Entry
    /\ known_implemented' = FALSE
    /\ ret' = Returned(pos', slot)
    /\ UNCHANGED <<fpVars, substVars, mergeVars, graphVars, fillVars>>

\* The closure is called with (self_ty.value, item) and the search goes on or
\* returns
Callback(p, self_ty, item, accepted, trait) ==
    /\ calls' = Append(calls, Invocation(p, self_ty, item, accepted, trait))
    /\ slot' = CallbackSlot(self_ty, item, accepted)
    /\ pos' = AfterCallback(p, accepted)
    /\ ret' = Returned(pos', slot')

\* iterate_inherent_methods: an item that passed goes to the callback
InherentCallback ==
    /\ pos.pc = "inherent"
    /\ \E accepted \in BOOLEAN : Callback(pos, SelfTy(pos), Item(pos), accepted, "")
    /\ UNCHANGED <<mode, ty, gen, traits_in_scope, name, known_implemented,
                   queries, solved>>
    /\ UNCHANGED <<fpVars, substVars, mergeVars, graphVars, fillVars>>

Query(p, trait, self_ty, answer) ==
    [trait |-> trait, self_ty |-> self_ty, answer |-> answer,
     slot_is_none |-> (slot = None), i |-> p.i, v |-> p.v, k |-> p.k, c |-> p.c, n |-> p.n]

\* db.trait_solve(krate, goal) is asked and answers
TraitSolve(p, trait, self_ty, answer) ==
    /\ answer \in TraitSolveAnswers(Goal(trait, self_ty))
    /\ solved' = MapPut(solved, Goal(trait, self_ty), answer)
    /\ queries' = Append(queries, Query(p, trait, self_ty, answer))

\* iterate_trait_method_candidates: the first item of a trait that passed asks
\* the solver, which finds no solution: continue 'traits
TraitNotImplemented ==
    /\ pos.pc = "trait"
    /\ ~known_implemented
    /\ \E answer \in Solutions :
          is_none(answer) /\ TraitSolve(pos, Container(pos), SelfTy(pos), answer)
    /\ pos' = NextTrait(pos)
    /\ known_implemented' = FALSE
    /\ ret' = Returned(pos', slot)
    /\ UNCHANGED <<mode, ty, gen, traits_in_scope, name, calls, slot>>
    /\ UNCHANGED <<fpVars, substVars, mergeVars, graphVars, fillVars>>

\* iterate_trait_method_candidates: the first item of a trait that passed asks
\* the solver, which finds a solution: the item goes to the callback
TraitImplemented ==
    /\ pos.pc = "trait"
    /\ ~known_implemented
    /\ \E answer \in Solutions :
          ~is_none(answer) /\ TraitSolve(pos, Container(pos), SelfTy(pos), answer)
    /\ \E accepted \in BOOLEAN : Callback(pos, SelfTy(pos), Item(pos), accepted, Container(pos))
    /\ known_implemented' = SameTrait(pos, pos')
    /\ UNCHANGED <<mode, ty, gen, traits_in_scope, name>>
    /\ UNCHANGED <<fpVars, substVars, mergeVars, graphVars, fillVars>>

\* iterate_trait_method_candidates: a later item that passed, of a trait known
\* to be implemented, goes to the callback
TraitKnownImplemented ==
    /\ pos.pc = "trait"
    /\ known_implemented
    /\ \E accepted \in BOOLEAN : Callback(pos, SelfTy(pos), Item(pos), accepted, Container(pos))
    /\ known_implemented' = SameTrait(pos, pos')
    /\ UNCHANGED <<mode, ty, gen, traits_in_scope, name, queries, solved>>
    /\ UNCHANGED <<fpVars, substVars, mergeVars, graphVars, fillVars>>

(***************************************************************************)
(* The calls the search is checked on                                      *)
(***************************************************************************)
MaxChain == 2

\* The types autoderef may yield for a method receiver
ChainTys == {TyS, TyWS, TyRefS}

\* Receivers autoderef stops at at once: an array, a type parameter, a dyn Trait
ShortChains == {<<TyArrS>>, <<TyP>>, <<TyDynT1>>}

\* Receivers W<T> that deref to the slice [T]
SliceElems == {TyS, TyP}

SliceChains == {<<TyW(t), apply_one("Slice", t)>> : t \in SliceElems}

\* The self types of a path lookup
PathTys == {TyS, TyWS, TyW(TyBool), TyRefS, TySliceS, TyP, TyDynT1}

SeqsOfLen(S, lo, hi) == UNION {[1..m -> S] : m \in lo..hi}

\* The orders in which a set of traits in scope may be iterated
ScopeOrders == {<<>>, <<"T1">>, <<"T2">>, <<"T1", "T2">>, <<"T2", "T1">>}

NameFilters == {None, Some("bar"), Some("make"), Some("len"), Some("val"), Some("flag")}

SearchOff ==
    /\ mode = "" /\ ty = None /\ gen = <<>>
    /\ traits_in_scope = <<>> /\ name = None
    /\ pos = [pc |-> "off", i |-> 0, v |-> 0, k |-> 0, c |-> 0, n |-> 0]
    /\ known_implemented = FALSE
    /\ calls = <<>> /\ queries = <<>> /\ solved = EmptyMap /\ slot = None /\ ret = None

SubstOff ==
    /\ impl_arg = None /\ fn_arg = None /\ self_ty_arg = None
    /\ substs_res = None /\ receiver_res = None

FpOff == fp_ty = None /\ fp_res = None /\ SubstOff

MergeOff == mA = None /\ mB = None /\ mC = None /\ mRes = None /\ mDone = <<>>

FillOff == fill_impls = None /\ fill_n = 0 /\ fill_res = None /\ fill_all = None

GraphOff == deps = None /\ decl = None /\ own = None /\ from_deps = None /\ FillOff

Init ==
    /\ \/ /\ mode = "MethodCall"
          /\ \E g \in SeqsOfLen(ChainTys, 1, MaxChain) \cup ShortChains \cup SliceChains :
                /\ gen = [j \in 1..Len(g) |-> Canonical(g[j], 0)]
                /\ ty = Canonical(g[1], 0)
       \/ /\ mode = "Path"
          /\ \E t \in PathTys : ty = Canonical(t, 0) /\ gen = <<Canonical(t, 0)>>
    /\ traits_in_scope \in ScopeOrders
    /\ name \in NameFilters
    /\ pos = [pc |-> "start", i |-> 0, v |-> 0, k |-> 0, c |-> 0, n |-> 0]
    /\ known_implemented = FALSE
    /\ calls = <<>> /\ queries = <<>> /\ solved = EmptyMap /\ slot = None /\ ret = None
    /\ FpOff /\ MergeOff /\ GraphOff

Next ==
    \/ Start
    \/ InherentCallback
    \/ TraitNotImplemented
    \/ TraitImplemented
    \/ TraitKnownImplemented

Spec == Init /\ [][Next]_vars

(***************************************************************************)
(* Properties of the candidate search                                      *)
(***************************************************************************)
\* The place of an invocation in the precedence: deref level, receiver
\* variant, inherent before trait, index of the self type in the walk
LoopRank(kind) == IF kind = "inherent" THEN 1 ELSE 2

Rank(call) == <<call.i, call.v, LoopRank(call.kind), call.k>>

LexLeq(a, b) ==
    \/ a = b
    \/ \E m \in 1..Len(a) : a[m] < b[m] /\ \A l \in 1..(m - 1) : a[l] = b[l]

\* C1: in MethodCall mode the callback invocations come in the order of the
\* precedence: a shallower deref level before a deeper one; within a level by
\* value, then shared autoref, then mutable autoref; within level and variant
\* inherent before trait; within those a nearer self type of the walk before a
\* farther one.
C1_Precedence ==
    mode = "MethodCall" =>
        \A a, b \in DOMAIN calls : a < b => LexLeq(Rank(calls[a]), Rank(calls[b]))

C1_Witness ==
    /\ mode = "MethodCall"
    /\ \E a, b, c, d \in DOMAIN calls :
        /\ a < b /\ b < c /\ c < d
        /\ calls[a].kind = "inherent" /\ calls[b].kind = "trait"
        /\ <<calls[a].i, calls[a].v>> = <<calls[b].i, calls[b].v>>
        /\ calls[c].i = calls[b].i /\ calls[c].v > calls[b].v
        /\ calls[d].i > calls[c].i
    /\ \E a, b \in DOMAIN calls :
        /\ a < b /\ calls[a].k < calls[b].k
        /\ <<calls[a].i, calls[a].v, calls[a].kind>> = <<calls[b].i, calls[b].v, calls[b].kind>>

\* The oracle of C2: it never accepted T1 for S and never rejected it for &S
C2_Oracle ==
    /\ Goal("T1", Canonical(TyS, 0)) \in DOMAIN solved
          => solved[Goal("T1", Canonical(TyS, 0))] = None
    /\ Goal("T1", Canonical(TyRefS, 0)) \in DOMAIN solved
          => solved[Goal("T1", Canonical(TyRefS, 0))] # None

C2_Lookup ==
    /\ mode = "MethodCall" /\ gen = <<Canonical(TyS, 0)>> /\ name = Some("bar")
    /\ \E j \in DOMAIN traits_in_scope : traits_in_scope[j] = "T1"
    /\ C2_Oracle

\* C2: with bar(&self) inherent on S, the trait T1 with bar(&self) in scope and
\* implemented for &S but not for S, a MethodCall lookup of bar on a receiver S
\* (deref chain [S]) never delivers T1's bar, and with T1 the only trait in
\* scope delivers nothing but the inherent bar.
C2_OnlyInherentBar ==
    C2_Lookup =>
        \A j \in DOMAIN calls :
            /\ calls[j].item # "T1_bar"
            /\ traits_in_scope = <<"T1">> => calls[j].item = "S_bar"

C2_Witness ==
    /\ C2_Lookup /\ pos.pc = "done"
    /\ calls # <<>> /\ calls[1].item = "S_bar"
    /\ Goal("T1", Canonical(TyS, 0)) \in DOMAIN solved

\* C3: a trait candidate is delivered only when the oracle accepted the goal
\* (trait, self type scanned), and a trait all of whose goals the oracle
\* rejected has delivered nothing; in both lookup modes.
C3_OracleAccepted ==
    /\ \A j \in DOMAIN calls :
          calls[j].kind = "trait" =>
              /\ Goal(calls[j].trait, calls[j].self_ty) \in DOMAIN solved
              /\ solved[Goal(calls[j].trait, calls[j].self_ty)] # None
    /\ \A t \in Traits :
          (\A g \in DOMAIN solved : g[1] = t => solved[g] = None)
              => \A j \in DOMAIN calls : calls[j].trait # t

C3_Witness ==
    /\ pos.pc = "done"
    /\ \E j \in DOMAIN calls : calls[j].trait = "T2"
    /\ \E g \in DOMAIN solved : g[1] = "T1"
    /\ \A g \in DOMAIN solved : g[1] = "T1" => solved[g] = None
    /\ \E j \in DOMAIN traits_in_scope : traits_in_scope[j] = "T1"

\* C4: the inherent associated function make of S has no self parameter: a Path
\* lookup of make on S delivers it first, a MethodCall lookup of make delivers
\* nothing, and MethodCall mode delivers only functions with a self parameter
\* (no function without one, no associated constant).
C4_SelfParam ==
    /\ mode = "Path" /\ ty = Canonical(TyS, 0) /\ name = Some("make") /\ calls # <<>>
          => calls[1].item = "S_make" /\ calls[1].v = 0
    /\ mode = "Path" /\ ty = Canonical(TyS, 0) /\ name = Some("make") /\ pos.pc = "done"
          => calls # <<>>
    /\ mode = "MethodCall" /\ name = Some("make") => calls = <<>>
    /\ mode = "MethodCall" =>
          \A j \in DOMAIN calls :
              /\ ItemTable[calls[j].item].kind = "FunctionId"
              /\ ItemTable[calls[j].item].has_self_param

C4_Witness ==
    /\ mode = "Path" /\ ty = Canonical(TyS, 0) /\ name = Some("make")
    /\ pos.pc = "done" /\ calls # <<>> /\ calls[1].item = "S_make"

\* The invocations that accepted
Accepting == {j \in DOMAIN calls : calls[j].accepted}

\* C9: once the callback accepted a candidate the search stops: the accepting
\* invocation is the last one and the call has returned, the slot was empty at
\* every invocation and at every oracle query, and the call returns the value
\* of that acceptance (none when no invocation accepted).
C9_StopsAfterAccept ==
    /\ \A j \in DOMAIN calls : calls[j].slot_is_none
    /\ \A j \in DOMAIN queries : queries[j].slot_is_none
    /\ \A j \in Accepting :
          /\ j = Len(calls) /\ pos.pc = "done"
          /\ slot = Some([ty |-> calls[j].ty, item |-> calls[j].item])
    /\ Accepting = {} => slot = None
    /\ pos.pc = "done" => ret = Some(slot)
    /\ pos.pc # "done" => ret = None

C9_Witness ==
    /\ pos.pc = "done" /\ Len(calls) >= 2 /\ queries # <<>>
    /\ calls[Len(calls)].accepted /\ ret = Some(slot) /\ slot # None

\* What a path lookup has to deliver from the impls of its self type
PathInherentItems ==
    {it \in Items :
        /\ ItemTable[it].container.kind = "ImplId"
        /\ ItemTable[it].kind \in {"FunctionId", "ConstId"}
        /\ name = None \/ ItemTable[it].name = name
        /\ \E j \in DOMAIN InherentImpls(ty) : InherentImpls(ty)[j] = ItemTable[it].container.impl
        /\ inherent_impl_substs(ItemTable[it].container.impl, ty) # None}

\* C10: in Path mode every invocation carries the receiver itself as self
\* type, no inherent invocation follows a trait invocation, every inherent
\* candidate of the receiver (function with or without self parameter,
\* constant) has been delivered before the first trait candidate, and an
\* inherent candidate comes from an impl of the receiver's own type, not of
\* what it derefs to.
C10_PathOneSelfTy ==
    mode = "Path" =>
        /\ \A j \in DOMAIN calls :
              /\ calls[j].self_ty = ty /\ calls[j].v = 0 /\ calls[j].k = 1
              /\ calls[j].kind = "inherent" => calls[j].item \in PathInherentItems
        /\ \A a, b \in DOMAIN calls :
              a < b => ~(calls[a].kind = "trait" /\ calls[b].kind = "inherent")
        /\ \A b \in DOMAIN calls :
              calls[b].kind = "trait" =>
                  PathInherentItems =
                      {calls[a].item : a \in {x \in 1..(b - 1) : calls[x].kind = "inherent"}}

C10_Witness ==
    /\ mode = "Path" /\ ty = Canonical(TyS, 0) /\ name = None
    /\ \E b \in DOMAIN calls :
          /\ calls[b].kind = "trait"
          /\ {"S_bar", "S_make", "S_K"} \subseteq {calls[a].item : a \in 1..(b - 1)}

(***************************************************************************)
(* resolve_indexing_op                                                     *)
(***************************************************************************)
\* The index_trait the fixture's caller passes
index_trait == "Index"

\* resolve_indexing_op is called: the deref chain is built and its first
\* entry is up
IndexStart ==
    /\ pos.pc = "start" /\ mode = "IndexOp"
    /\ pos' = [pc |-> "index", i |-> 1, v |-> 0, k |-> 0, c |-> 0, n |-> 0]
    /\ ret' = None
    /\ UNCHANGED <<mode, ty, gen, traits_in_scope, name, known_implemented, calls,
                   queries, solved, slot>>
    /\ UNCHANGED <<fpVars, substVars, mergeVars, graphVars, fillVars>>

\* The solver finds index_trait implemented for the entry: return Some(ty)
IndexImplemented ==
    /\ pos.pc = "index"
    /\ \E answer \in Solutions :
          ~is_none(answer) /\ TraitSolve(pos, index_trait, deref_chain[pos.i], answer)
    /\ pos' = Done(pos)
    /\ ret' = Some(Some(deref_chain[pos.i]))
    /\ UNCHANGED <<mode, ty, gen, traits_in_scope, name, known_implemented, calls, slot>>
    /\ UNCHANGED <<fpVars, substVars, mergeVars, graphVars, fillVars>>

\* The solver finds no solution: on to the next entry, None after the last
IndexNotImplemented ==
    /\ pos.pc = "index"
    /\ \E answer \in Solutions :
          is_none(answer) /\ TraitSolve(pos, index_trait, deref_chain[pos.i], answer)
    /\ pos' = IF pos.i < Len(deref_chain) THEN [pos EXCEPT !.i = @ + 1] ELSE Done(pos)
    /\ ret' = IF pos.i < Len(deref_chain) THEN None ELSE Some(None)
    /\ UNCHANGED <<mode, ty, gen, traits_in_scope, name, known_implemented, calls, slot>>
    /\ UNCHANGED <<fpVars, substVars, mergeVars, graphVars, fillVars>>

\* The types autoderef may yield for the receiver of an index expression
IndexTys == {TyS, TyWS, TyRefS, TySliceS, TyArrS}

\* The entries autoderef may yield: the types above, and an array [?0; _] of
\* an inference variable, canonicalized with one hole
IndexEntries ==
    {Canonical(t, 0) : t \in IndexTys} \cup {Canonical(apply_one("Array", TyBound(0)), 1)}

InitIndex ==
    /\ mode = "IndexOp"
    /\ \E g \in SeqsOfLen(IndexEntries, 1, MaxChain) : gen = g /\ ty = g[1]
    /\ traits_in_scope = <<>> /\ name = None
    /\ pos = [pc |-> "start", i |-> 0, v |-> 0, k |-> 0, c |-> 0, n |-> 0]
    /\ known_implemented = FALSE
    /\ calls = <<>> /\ queries = <<>> /\ solved = EmptyMap /\ slot = None /\ ret = None
    /\ FpOff /\ MergeOff /\ GraphOff

NextIndex ==
    \/ IndexStart
    \/ IndexImplemented
    \/ IndexNotImplemented

SpecIndex == InitIndex /\ [][NextIndex]_vars

\* The solver accepted (rejected) index_trait for the chain entry
IndexAccepted(t) ==
    Goal(index_trait, t) \in DOMAIN solved /\ solved[Goal(index_trait, t)] # None

IndexRejected(t) ==
    Goal(index_trait, t) \in DOMAIN solved /\ solved[Goal(index_trait, t)] = None

\* What autoderef yielded ends in an array
EndsInArray ==
    gen[Len(gen)].value.kind = "Apply" /\ gen[Len(gen)].value.ctor = "Array"

\* C5: resolve_indexing_op returns the first entry of the deref chain (what
\* autoderef yields, then the slice of a trailing array) for which the solver
\* accepts index_trait: every entry before it was rejected, the entries were
\* probed in chain order and none after the returned one; it returns none iff
\* every entry, the trailing slice included, was rejected.
C5_FirstAccepted ==
    (mode = "IndexOp" /\ pos.pc = "done") =>
        /\ ret # None
        /\ \A j \in DOMAIN queries :
              queries[j].self_ty = deref_chain[j] /\ queries[j].trait = index_trait
        /\ ret[1] # None =>
              /\ Len(queries) \in DOMAIN deref_chain
              /\ ret[1][1] = deref_chain[Len(queries)]
              /\ IndexAccepted(deref_chain[Len(queries)])
              /\ \A j \in 1..(Len(queries) - 1) : IndexRejected(deref_chain[j])
        /\ ret[1] = None <=> \A j \in DOMAIN deref_chain : IndexRejected(deref_chain[j])
        /\ Len(deref_chain) = Len(gen) + (IF EndsInArray THEN 1 ELSE 0)
        /\ EndsInArray => deref_chain[Len(deref_chain)].value.ctor = "Slice"

C5_Witness ==
    /\ mode = "IndexOp" /\ pos.pc = "done"
    /\ Len(gen) = 2 /\ Len(deref_chain) = 3
    /\ ret = Some(Some(deref_chain[3]))
    /\ IndexRejected(deref_chain[1]) /\ IndexRejected(deref_chain[2])
    /\ IndexAccepted(deref_chain[3])

(***************************************************************************)
(* TyFingerprint::for_impl on the types of the fixture                     *)
(***************************************************************************)
\* Types without parameters
BaseTys ==
    {TyS, TyBool, TyApply("Char", <<>>), TyApply("Int(i32)", <<>>), TyApply("Str", <<>>),
     TyApply("Float(X64)", <<>>), TyApply("Never", <<>>), TyApply("Tuple", <<>>),
     TyP, TyDynT1, TyUnknown, TyBound(0)}

\* Constructors of one parameter
UnaryCtors == {"Adt(W)", "Slice", "Array", "RawPtr(Shared)", "RawPtr(Mut)", RefShared, RefMut}

FpTys ==
    BaseTys \cup {apply_one(c, t) : c \in UnaryCtors, t \in BaseTys}
            \cup {TyApply("Tuple", <<t, t>>) : t \in BaseTys}

\* for_impl is called on fp_ty
ForImpl ==
    /\ fp_res = None
    /\ fp_res' = Some(for_impl(fp_ty))
    /\ UNCHANGED fp_ty
    /\ UNCHANGED <<searchVars, substVars, mergeVars, graphVars, fillVars>>

InitFp ==
    /\ fp_ty \in FpTys /\ fp_res = None /\ SubstOff
    /\ SearchOff /\ MergeOff /\ GraphOff

NextFp ==
    \/ ForImpl

SpecFp == InitFp /\ [][NextFp]_vars

\* Nominal (ADT), primitive and pointer constructors
NominalCtors == AdtCtors
PrimitiveCtors == {"Bool", "Char", "Int(i32)", "Float(X32)", "Float(X64)", "Str", "Never",
                   "Slice", "Array"}
PointerCtors == {"RawPtr(Shared)", "RawPtr(Mut)"}

IsReference(t) == t.kind = "Apply" /\ t.ctor \in {RefShared, RefMut}
IsTuple(t) == t.kind = "Apply" /\ t.ctor = "Tuple"

\* C6: for_impl returns a fingerprint iff the type is an applied nominal,
\* primitive or pointer constructor, and none for every reference type, tuple
\* type, placeholder and the unknown type.
C6_ForImplDefined ==
    fp_res # None =>
        /\ fp_res[1] # None <=>
              (fp_ty.kind = "Apply"
                  /\ fp_ty.ctor \in NominalCtors \cup PrimitiveCtors \cup PointerCtors)
        /\ (IsReference(fp_ty) \/ IsTuple(fp_ty) \/ fp_ty.kind \in {"Placeholder", "Unknown"})
              => fp_res[1] = None

\* for_impl has answered for a reference type
C6_Witness ==
    fp_res # None /\ IsReference(fp_ty)

\* What for_impl does: a fingerprint, the constructor, for every Ty::Apply,
\* references and tuples included, and none for every other type
C6_ForImplApply ==
    fp_res # None =>
        fp_res[1] = (IF fp_ty.kind = "Apply" THEN Some(fp_ty.ctor) ELSE None)

(***************************************************************************)
(* CrateImplDefs::merge on indices filled from the fixture's impls         *)
(***************************************************************************)
MaxDecl == 2
MaxMerges == 2

\* The impls the indices are filled from: two inherent impls of S, two impls
\* of T1 for reference types
MergeImpls == {1, 6, 4, 7}

\* The impls a crate may declare, in module order
DeclSeqs(n) ==
    {q \in SeqsOfLen(MergeImpls, 0, n) : \A a, b \in DOMAIN q : a # b => q[a] # q[b]}

\* res.merge(&other)
Merge(which, other) ==
    /\ mRes' = merge(mRes, other)
    /\ mDone' = Append(mDone, which)

\* The index B is merged into the result
MergeB ==
    /\ Len(mDone) < MaxMerges
    /\ Merge("B", mB)
    /\ UNCHANGED <<mA, mB, mC>>
    /\ UNCHANGED <<searchVars, fpVars, substVars, graphVars, fillVars>>

\* The index C is merged into the result
MergeC ==
    /\ Len(mDone) < MaxMerges
    /\ Merge("C", mC)
    /\ UNCHANGED <<mA, mB, mC>>
    /\ UNCHANGED <<searchVars, fpVars, substVars, graphVars, fillVars>>

InitMerge ==
    /\ \E a, b, c \in DeclSeqs(MaxDecl) :
          /\ mA = fill(EmptyDefs, a) /\ mB = fill(EmptyDefs, b) /\ mC = fill(EmptyDefs, c)
    /\ mRes = mA /\ mDone = <<>>
    /\ SearchOff /\ FpOff /\ GraphOff

NextMerge ==
    \/ MergeB
    \/ MergeC

SpecMerge == InitMerge /\ [][NextMerge]_vars

\* The members of the buckets of an index: per fingerprint, and per trait and
\* optional fingerprint
Members(defs) ==
    [inherent |-> [fp \in DOMAIN defs.inherent_impls |-> Range(defs.inherent_impls[fp])],
     by_trait |-> [t \in DOMAIN defs.impls_by_trait |->
                     [fp \in DOMAIN defs.impls_by_trait[t] |->
                         Range(defs.impls_by_trait[t][fp])]]]

\* C7: merge is idempotent and order-independent on the members of the
\* buckets: B merged into A twice gives what B merged once gives, and B then C
\* merged into A gives what C then B gives.
C7_MergeIdempotentCommutative ==
    /\ mDone = <<"B", "B">> => Members(mRes) = Members(merge(mA, mB))
    /\ mDone = <<"B", "C">> => Members(mRes) = Members(merge(merge(mA, mC), mB))
    /\ mDone = <<"C", "B">> => Members(mRes) = Members(merge(merge(mA, mB), mC))

C7_Witness ==
    /\ mDone = <<"B", "C">>
    /\ mA # mB /\ mB # mC /\ mA # mC
    /\ \E fp \in DOMAIN mRes.inherent_impls : Len(mRes.inherent_impls[fp]) = 2
    /\ \E fp \in DOMAIN mB.inherent_impls :
          /\ fp \in DOMAIN mA.inherent_impls /\ fp \in DOMAIN mC.inherent_impls
          /\ Range(mB.inherent_impls[fp]) \cap Range(mA.inherent_impls[fp]) # {}
          /\ Range(mB.inherent_impls[fp]) # Range(mC.inherent_impls[fp])

(***************************************************************************)
(* impls_in_crate_query and impls_from_deps_query over a crate graph       *)
(***************************************************************************)
GraphCrates == {"app", "left", "right", "base"}

\* crate_graph[krate].dependencies of the graphs checked: a chain, a diamond
\* (base reachable through left and through right), the diamond in the other
\* order of app's dependencies, and the diamond with base a direct dependency
\* of app as well
CrateGraphs ==
    {[app |-> <<"left">>, left |-> <<"right">>, right |-> <<"base">>, base |-> <<>>],
     [app |-> <<"left", "right">>, left |-> <<"base">>, right |-> <<"base">>, base |-> <<>>],
     [app |-> <<"right", "left">>, left |-> <<"base">>, right |-> <<"base">>, base |-> <<>>],
     [app |-> <<"base", "left", "right">>, left |-> <<"base">>, right |-> <<"base">>,
      base |-> <<>>]}

\* The impls the crates of the graph declare: two inherent impls of S and an
\* impl of T1 for &S
DeclImpls == {1, 6, 4}

\* The impls of a set in ascending or in descending order
RECURSIVE Ordered(_, _)
Ordered(ids, descending) ==
    IF ids = {} THEN <<>>
    ELSE LET x == CHOOSE y \in ids : \A z \in ids : IF descending THEN z <= y ELSE y <= z
         IN  <<x>> \o Ordered(ids \ {x}, descending)

\* impls_in_crate_query on the crate graph: fill from the impls the crate's
\* modules declare
impls_in_crate_of(krate) == fill(EmptyDefs, decl[krate])

\* impls_from_deps_query: for each dependency, impls_from_deps of it merged in,
\* then its impls_in_crate
RECURSIVE merge_dependencies_direct_only(_, _)
merge_dependencies_direct_only(res, dependencies) ==
    IF dependencies = <<>> THEN res
    ELSE merge_dependencies_direct_only(merge(res, impls_in_crate_of(Head(dependencies))),
                                        Tail(dependencies))

RECURSIVE impls_from_deps(_)
RECURSIVE merge_dependencies(_, _)
impls_from_deps(krate) == merge_dependencies(EmptyDefs, deps[krate])

merge_dependencies(res, dependencies) ==
    IF dependencies = <<>> THEN res
    ELSE merge_dependencies(
            merge(merge(res, impls_from_deps(Head(dependencies))),
                  impls_in_crate_of(Head(dependencies))),
            Tail(dependencies))

\* db.impls_in_crate(krate) is computed
ImplsInCrateQuery ==
    /\ \E krate \in GraphCrates :
          /\ own[krate] = None
          /\ own' = [own EXCEPT ![krate] = Some(impls_in_crate_of(krate))]
    /\ UNCHANGED <<deps, decl, from_deps>>
    /\ UNCHANGED <<searchVars, fpVars, substVars, mergeVars, fillVars>>

\* db.impls_from_deps(krate) is computed
ImplsFromDepsQuery ==
    /\ \E krate \in GraphCrates :
          /\ from_deps[krate] = None
          /\ from_deps' = [from_deps EXCEPT ![krate] = Some(impls_from_deps(krate))]
    /\ UNCHANGED <<deps, decl, own>>
    /\ UNCHANGED <<searchVars, fpVars, substVars, mergeVars, fillVars>>

InitDeps ==
    /\ deps \in CrateGraphs
    /\ \E declared_in \in [DeclImpls -> GraphCrates], descending \in BOOLEAN :
          decl = [krate \in GraphCrates |->
                    Ordered({id \in DeclImpls : declared_in[id] = krate}, descending)]
    /\ own = [krate \in GraphCrates |-> None]
    /\ from_deps = [krate \in GraphCrates |-> None]
    /\ FillOff
    /\ SearchOff /\ FpOff /\ MergeOff

NextDeps ==
    \/ ImplsInCrateQuery
    \/ ImplsFromDepsQuery

SpecDeps == InitDeps /\ [][NextDeps]_vars

\* The crates krate depends on, directly or through other crates
RECURSIVE TransitiveDeps(_)
TransitiveDeps(krate) ==
    UNION {{deps[krate][j]} \cup TransitiveDeps(deps[krate][j]) : j \in DOMAIN deps[krate]}

\* The graph has a diamond below krate: a crate reached through two
\* dependencies of one crate
Diamond(krate) ==
    \E k \in {krate} \cup TransitiveDeps(krate) :
        \E a, b \in DOMAIN deps[k] :
            /\ a # b
            /\ ({deps[k][a]} \cup TransitiveDeps(deps[k][a]))
                  \cap ({deps[k][b]} \cup TransitiveDeps(deps[k][b])) # {}

\* How often id occurs in a bucket
Occurrences(vec, id) == Cardinality({j \in DOMAIN vec : vec[j] = id})

\* Each impl of `ids` is once in the bucket it belongs to, and nothing else is
\* in any bucket
EachOnce(defs, ids) ==
    /\ \A fp \in DOMAIN defs.inherent_impls : \A id \in ImplIds :
          Occurrences(defs.inherent_impls[fp], id) =
              (IF id \in ids /\ ImplTable[id].trait = None
                  /\ for_impl(ImplTable[id].self_ty) = Some(fp) THEN 1 ELSE 0)
    /\ \A t \in DOMAIN defs.impls_by_trait : \A fp \in DOMAIN defs.impls_by_trait[t] :
          \A id \in ImplIds :
              Occurrences(defs.impls_by_trait[t][fp], id) =
                  (IF id \in ids /\ ImplTable[id].trait = Some(t)
                      /\ for_impl(ImplTable[id].self_ty) = fp THEN 1 ELSE 0)
    /\ \A id \in ids :
          IF ImplTable[id].trait = None
          THEN for_impl(ImplTable[id].self_ty)[1] \in DOMAIN defs.inherent_impls
          ELSE /\ ImplTable[id].trait[1] \in DOMAIN defs.impls_by_trait
               /\ for_impl(ImplTable[id].self_ty)
                     \in DOMAIN defs.impls_by_trait[ImplTable[id].trait[1]]

\* The impls the crates of a set declare
DeclaredIn(krates) == UNION {Range(decl[k]) : k \in krates}

\* C8: in a crate graph with a diamond, every bucket of the index
\* impls_from_deps_query builds for a crate holds each impl of the crate's
\* transitive dependencies exactly once (the crates' own indices hold each of
\* their impls once).
C8_DiamondEachOnce ==
    \A krate \in GraphCrates :
        (from_deps[krate] # None /\ Diamond(krate)) =>
            EachOnce(from_deps[krate][1], DeclaredIn(TransitiveDeps(krate)))

C8_Witness ==
    /\ from_deps["app"] # None /\ Diamond("app")
    /\ decl["base"] = <<6, 4, 1>>
    /\ from_deps["app"][1].inherent_impls = [x \in {"Adt(S)"} |-> <<1, 6>>]

(***************************************************************************)
(* Further properties of the candidate search                              *)
(***************************************************************************)
\* The callback never accepted: the search enumerates every candidate
NeverAccepted == \A j \in DOMAIN calls : ~calls[j].accepted

\* C11: with a callback that never accepts, no associated item is delivered
\* more than once in a single iterate_method_candidates call, in either mode.
C11_NoItemTwice ==
    NeverAccepted =>
        \A a, b \in DOMAIN calls : a # b => calls[a].item # calls[b].item

\* A receiver &S (deref chain [&S, S]): bar(&self) of S is delivered by value
\* at the first level and with a shared autoref at the second
C11_Witness ==
    /\ mode = "MethodCall" /\ gen = <<Canonical(TyRefS, 0), Canonical(TyS, 0)>>
    /\ NeverAccepted /\ pos.pc = "done"
    /\ \E a, b \in DOMAIN calls :
          /\ a < b /\ calls[a].item = "S_bar" /\ calls[b].item = "S_bar"
          /\ <<calls[a].i, calls[a].v>> = <<1, 1>> /\ <<calls[b].i, calls[b].v>> = <<2, 2>>

\* C12: the type lookup_method returns, and every type the callback gets in
\* MethodCall mode, is the autoderefed receiver type without autoref applied:
\* an element of the receiver's deref chain, never a synthesized &B or &mut B.
C12_TyInDerefChain ==
    mode = "MethodCall" =>
        /\ \A j \in DOMAIN calls : calls[j].self_ty \in Range(deref_chain)
        /\ (ret # None /\ ret[1] # None) =>
              \E j \in DOMAIN deref_chain : deref_chain[j].value = ret[1][1].ty

\* A receiver S (deref chain [S]) and a trait in scope with val(self),
\* implemented for &S and not for S: looking up val returns the type &S
C12_Witness ==
    /\ mode = "MethodCall" /\ gen = <<Canonical(TyS, 0)>> /\ name = Some("val")
    /\ traits_in_scope = <<"T2">>
    /\ ret = Some(Some([ty |-> TyRefS, item |-> "T2_val"]))
    /\ Len(calls) = 1 /\ calls[1].self_ty = refed(deref_chain[1], RefShared)
    /\ <<calls[1].i, calls[1].v, calls[1].k>> = <<1, 2, 1>>

\* The lookup of C13: W<T> has no len of its own and derefs to the slice [T],
\* whose impl in core has the only len(&self)
C13_Lookup ==
    /\ mode = "MethodCall" /\ name = Some("len")
    /\ \E t \in SliceElems :
          gen = <<Canonical(TyW(t), 0), Canonical(apply_one("Slice", t), 0)>>

\* The slice the receiver of C13 derefs to
C13_Slice == gen[2].value

\* C13: a MethodCall lookup of len on a receiver W<T> with deref chain
\* [W<T>, [T]] succeeds: the search does not return before it delivered the
\* slice's len, every delivery is made while processing the second deref level
\* with the self type [T], and once the callback accepts the search returns
\* ([T], len).
C13_LenAtSecondLevel ==
    C13_Lookup =>
        /\ \A j \in DOMAIN calls :
              /\ calls[j].item = "slice_len" /\ calls[j].kind = "inherent"
              /\ calls[j].i = 2 /\ calls[j].ty = C13_Slice
        /\ pos.pc = "done" => calls # <<>>
        /\ (pos.pc = "done" /\ calls[1].accepted) =>
              ret = Some(Some([ty |-> C13_Slice, item |-> "slice_len"]))

C13_Witness ==
    /\ C13_Lookup /\ pos.pc = "done"
    /\ Len(calls) = 1 /\ calls[1].accepted /\ calls[1].i = 2
    /\ ret = Some(Some([ty |-> C13_Slice, item |-> "slice_len"]))

(***************************************************************************)
(* The deref chain of a receiver                                           *)
(***************************************************************************)
\* The slice an array unsizes to: the same parameters, the same num_vars
Unsized(c) == Canonical(TyApply("Slice", c.value.params), c.num_vars)

\* C14: the deref chain built for a receiver is what autoderef yielded,
\* followed by exactly one more entry iff the last element yielded is an array:
\* the slice with the same type parameters and the same num_vars. Nothing is
\* appended when the last element is not an array, when an array is only at
\* an earlier position, or when nothing was yielded.
C14_ArrayUnsizing ==
    /\ pos.pc \in {"index", "done"} =>
          /\ SubSeq(deref_chain, 1, Len(gen)) = gen
          /\ IF EndsInArray
             THEN /\ Len(deref_chain) = Len(gen) + 1
                  /\ deref_chain[Len(gen) + 1] = Unsized(gen[Len(gen)])
             ELSE deref_chain = gen
          /\ \A j \in DOMAIN queries : queries[j].self_ty = deref_chain[j]
    /\ autoderef_method_receiver(<<>>) = <<>>

\* Every entry of [S, [?0; _]] was probed and rejected, the slice [?0] with
\* one hole last
C14_Witness ==
    /\ mode = "IndexOp" /\ pos.pc = "done"
    /\ gen = <<Canonical(TyS, 0), Canonical(apply_one("Array", TyBound(0)), 1)>>
    /\ Len(queries) = 3
    /\ queries[3].self_ty = Canonical(apply_one("Slice", TyBound(0)), 1)

(***************************************************************************)
(* Inputs nothing applies to                                               *)
(***************************************************************************)
\* The self types the search scans that autoderef yielded or the caller gave
GivenSelfTys == IF mode = "MethodCall" THEN Range(deref_chain) ELSE {ty}

\* No self type has a defining crate, a dyn trait or a bound in the
\* environment, and no trait is in scope
Inapplicable ==
    /\ traits_in_scope = <<>>
    /\ \A t \in GivenSelfTys :
          def_crates(t.value) = None /\ t.value.kind \notin {"Dyn", "Placeholder"}

\* C15: inputs nothing applies to give no match. No inherent item is
\* delivered at a self type without a defining crate; no trait item is
\* delivered and no goal asked at a self type whose trait universe is empty;
\* no item is delivered of an impl whose Self type does not unify with the
\* self type (for an impl without type parameters: is not the self type);
\* and a search in which nothing was delivered returns none, without a
\* delivery or a query when nothing applies at all.
C15_NoMatch ==
    /\ \A j \in DOMAIN calls :
          calls[j].kind = "inherent" =>
              LET impl == ImplTable[ItemTable[calls[j].item].container.impl]
              IN  /\ def_crates(calls[j].ty) # None
                  /\ unify(Canonical(impl.self_ty, impl.generics), calls[j].self_ty) # None
                  /\ impl.generics = 0 => impl.self_ty = calls[j].ty
    /\ \A j \in DOMAIN calls :
          calls[j].kind = "trait" => TraitUniverse(calls[j].self_ty) # <<>>
    /\ \A j \in DOMAIN queries : TraitUniverse(queries[j].self_ty) # <<>>
    /\ (pos.pc = "done" /\ calls = <<>>) => ret = Some(None)
    /\ (pos.pc = "done" /\ Inapplicable) =>
          calls = <<>> /\ queries = <<>> /\ ret = Some(None)

\* A path lookup of flag on W<S> with no trait in scope: flag is in
\* impl W<bool>, which is in W<S>'s bucket and does not unify
C15_Witness ==
    /\ mode = "Path" /\ ty = Canonical(TyWS, 0) /\ name = Some("flag")
    /\ traits_in_scope = <<>>
    /\ \E j \in DOMAIN InherentImpls(ty) :
          /\ "W_flag" \in Range(ImplTable[InherentImpls(ty)[j]].items)
          /\ inherent_impl_substs(InherentImpls(ty)[j], ty) = None
    /\ pos.pc = "done" /\ calls = <<>> /\ queries = <<>> /\ ret = Some(None)

(***************************************************************************)
(* Inherent before trait at one receiver variant                           *)
(***************************************************************************)
\* The inherent candidates of the walk at deref level i, receiver variant v
\* that pass the filters
InherentCands(i, v) ==
    LoopCands([pc |-> "inherent", i |-> i, v |-> v, k |-> 1, c |-> 1, n |-> 1])

\* The inherent deliveries at deref level i, receiver variant v
InherentCalls(i, v) ==
    {a \in DOMAIN calls : calls[a].kind = "inherent" /\ <<calls[a].i, calls[a].v>> = <<i, v>>}

\* The trait deliveries
TraitCalls == {b \in DOMAIN calls : calls[b].kind = "trait"}

\* C17 as stated: in MethodCall mode, whenever an inherent candidate of the
\* walk passes the filters for a receiver variant, no trait candidate is
\* delivered for that level and variant, whatever the callback returns.
C17_NoTraitIfInherentPasses ==
    mode = "MethodCall" =>
        \A b \in DOMAIN calls :
            calls[b].kind = "trait" => InherentCands(calls[b].i, calls[b].v) = {}

\* C17: in MethodCall mode a trait candidate is delivered for a level and
\* receiver variant only after every inherent candidate of the walk that
\* passes the filters was delivered and the callback refused each of them:
\* the inherent deliveries of the level and variant come before its trait
\* deliveries and were refused, and when a trait candidate has just been
\* delivered they are as many as the inherent candidates that pass.
C17_TraitAfterInherentRefused ==
    mode = "MethodCall" =>
        /\ \A b \in TraitCalls :
              \A a \in InherentCalls(calls[b].i, calls[b].v) : a < b /\ ~calls[a].accepted
        /\ Len(calls) \in TraitCalls =>
              LET last == calls[Len(calls)]
              IN  Cardinality(InherentCalls(last.i, last.v))
                      = Cardinality(InherentCands(last.i, last.v))

\* Two inherent candidates of one walk were refused and a trait candidate
\* followed for the same level and variant
C17_Witness ==
    /\ mode = "MethodCall"
    /\ \E b \in DOMAIN calls :
          /\ calls[b].kind = "trait"
          /\ Cardinality(InherentCalls(calls[b].i, calls[b].v)) = 2
          /\ Cardinality(InherentCands(calls[b].i, calls[b].v)) = 2

(***************************************************************************)
(* The self types walked at a receiver variant                             *)
(***************************************************************************)
\* D[i..]
DerefsFrom(i) == SubSeq(deref_chain, i, Len(deref_chain))

\* The reference type a receiver variant synthesizes from B
AutorefTy(b, v) ==
    Canonical(TyApply(IF v = 2 THEN RefShared ELSE RefMut, <<b.value>>), b.num_vars)

\* The walk as C18 states it: [B] ++ D[i+1..] by value, [B] ++ D[i..] with
\* an autoref
StatedWalk(i, v) ==
    IF v = 1 THEN DerefsFrom(i) ELSE <<deref_chain[i]>> \o DerefsFrom(i)

\* The walk of once(receiver_ty).chain(rest_of_deref_chain): with an autoref
\* the reference type itself comes first
ReceiverWalk(i, v) ==
    IF v = 1 THEN DerefsFrom(i) ELSE <<AutorefTy(deref_chain[i], v)>> \o DerefsFrom(i)

\* The delivery or goal is at the k-th self type of the walk
AtWalk(rec, walk) == rec.k \in DOMAIN walk /\ rec.self_ty = walk[rec.k]

Scan(q) == <<q.i, q.v, q.k>>

TraitIteration(q) == <<q.i, q.v, q.k, q.c>>

\* The trait has an item that passes the filters at the query's scan
HasPassingItem(q) ==
    \E m \in DOMAIN trait_items(q.trait) :
        Passes("trait", ReceiverTy([i |-> q.i, v |-> q.v]), q.self_ty, q.trait,
               trait_items(q.trait)[m])

\* C19: within one trait scan at a self type the solver is asked lazily: no
\* goal for a trait none of whose items passes the filters; exactly one goal
\* (T, Sk) for a trait T with a passing item, and no second one for T in that
\* scan; after a rejection no item of T is delivered in that scan.
C19_OneGoalPerTraitAndScan ==
    /\ \A a \in DOMAIN queries : HasPassingItem(queries[a])
    /\ \A a, b \in DOMAIN queries :
          (a < b /\ Scan(queries[a]) = Scan(queries[b]))
              => queries[a].trait # queries[b].trait
    /\ \A a \in DOMAIN queries, j \in DOMAIN calls :
          (queries[a].answer = None /\ calls[j].kind = "trait"
             /\ Scan(queries[a]) = Scan(calls[j]))
              => calls[j].trait # queries[a].trait

\* A path lookup on dyn T1 with T1 in scope as well: T1 was asked about, and
\* its items delivered, once as the dyn trait and once as a trait in scope
C19_Witness ==
    /\ mode = "Path" /\ ty = Canonical(TyDynT1, 0) /\ pos.pc = "done"
    /\ \E a, b \in DOMAIN queries :
          /\ a < b /\ Scan(queries[a]) = Scan(queries[b])
          /\ queries[a].trait = "T1" /\ queries[b].trait = "T1"
          /\ queries[a].self_ty = ty /\ queries[b].self_ty = ty
          /\ queries[a].c = 1 /\ queries[b].c > 1

\* The same goal: the same trait for the same self type
SameGoal(q, r) == q.trait = r.trait /\ q.self_ty = r.self_ty

\* C20 as stated: once the solver accepted T for Sk, the goal (T, Sk) is not
\* asked again for the remainder of the iterate_method_candidates call, across
\* deref levels, receiver variants and sources of the trait universe.
C20_NoGoalAskedAgain ==
    \A a, b \in DOMAIN queries :
        (a < b /\ queries[a].answer # None) => ~SameGoal(queries[a], queries[b])

\* C20: once the solver accepted T for Sk, T is known to be implemented for
\* the rest of that iteration over T's items and no further: an iteration
\* over a trait asks at most one goal, and every trait item delivered was
\* confirmed by an accepted goal of its own scan.
C20_OneGoalPerTraitIteration ==
    /\ Cardinality({TraitIteration(queries[a]) : a \in DOMAIN queries}) = Len(queries)
    /\ \A j \in DOMAIN calls :
          calls[j].kind = "trait" =>
              \E a \in DOMAIN queries :
                  /\ Scan(queries[a]) = Scan(calls[j]) /\ SameGoal(queries[a], calls[j])
                  /\ queries[a].answer # None

\* A receiver S with T2 in scope: (T2, S) is accepted at the by-value variant,
\* where val(self) is delivered, and asked again at the shared autoref, where
\* bar(&self) is delivered
C20_Witness ==
    /\ mode = "MethodCall" /\ gen = <<Canonical(TyS, 0)>> /\ traits_in_scope = <<"T2">>
    /\ pos.pc = "done"
    /\ \E a, b \in DOMAIN queries :
          /\ a < b /\ SameGoal(queries[a], queries[b])
          /\ queries[a].answer # None /\ queries[a].self_ty = Canonical(TyS, 0)
          /\ queries[a].v = 1 /\ queries[b].v = 2
    /\ \E j \in DOMAIN calls : calls[j].item = "T2_val" /\ calls[j].v = 1
    /\ \E j \in DOMAIN calls : calls[j].item = "T2_bar" /\ calls[j].v = 2

(***************************************************************************)
(* The index the inherent scan consults                                    *)
(***************************************************************************)
\* The impl an inherent delivery's item is in
ImplOf(call) == ItemTable[call.item].container.impl

\* The inherent impls in the bucket of self_ty's fingerprint in the own index
\* or the index from the dependencies of a defining crate of self_ty
UsableImpls(self_ty) ==
    IF def_crates(self_ty.value) = None THEN {}
    ELSE UNION {Range(lookup_impl_defs(impls_usable_by(def_crates(self_ty.value)[1][j]),
                                       self_ty.value)) :
                  j \in DOMAIN def_crates(self_ty.value)[1]}

\* The items of those impls a path lookup on ty would let pass
UsableItems ==
    {it \in Items :
        /\ ItemTable[it].container.kind = "ImplId"
        /\ ItemTable[it].container.impl \in UsableImpls(ty)
        /\ Passes("inherent", None, ty, ItemTable[it].container.impl, it)}

\* C21 as stated: the inherent scan at a self type consults, for each
\* defining crate, the crate's own index together with its index from the
\* dependencies: a path lookup that ran to its end without an acceptance has
\* delivered the items that pass of every impl in either.
C21_DepsIndexScanned ==
    (mode = "Path" /\ pos.pc = "done" /\ NeverAccepted) =>
        UsableItems \subseteq {calls[j].item : j \in DOMAIN calls}

\* C21: the inherent scan at a self type consults the own index of each
\* defining crate of the self type and no other: every inherent delivery is of
\* an impl declared in a defining crate of its self type, and a path lookup
\* that ran to its end without an acceptance has delivered the items that
\* pass of exactly the impls those crates declare.
C21_OwnIndexOnly ==
    /\ \A j \in DOMAIN calls :
          calls[j].kind = "inherent" =>
              /\ def_crates(calls[j].ty) # None
              /\ ImplTable[ImplOf(calls[j])].krate \in Range(def_crates(calls[j].ty)[1])
    /\ (mode = "Path" /\ pos.pc = "done" /\ NeverAccepted) =>
          {calls[j].item : j \in {x \in DOMAIN calls : calls[x].kind = "inherent"}}
              = {it \in UsableItems :
                    ImplTable[ItemTable[it].container.impl].krate
                        \in Range(def_crates(ty.value)[1])}

\* A path lookup on [S] ran to its end: len of core's impl was delivered and
\* refused, ext of dep's impl, which is in the index from core's dependencies,
\* was not delivered
C21_Witness ==
    /\ mode = "Path" /\ ty = Canonical(TySliceS, 0) /\ name = None
    /\ pos.pc = "done" /\ NeverAccepted
    /\ def_crates(ty.value) = Some(<<"core">>)
    /\ 9 \in Range(lookup_impl_defs(impls_from_deps_query("core"), ty.value))
    /\ "slice_ext" \in UsableItems
    /\ \E j \in DOMAIN calls : calls[j].item = "slice_len"
    /\ \A j \in DOMAIN calls : calls[j].item # "slice_ext"

(***************************************************************************)
(* The impl of an inherent candidate applies to the self type              *)
(***************************************************************************)
\* The types the fixture's generic impls are instantiated at
TyArgs == {TyS, TyBool, TyP}

\* The types an impl's declared Self type stands for
Instances(impl) ==
    IF impl.generics = 0 THEN {impl.self_ty}
    ELSE {subst_bound_vars(impl.self_ty, <<t>>) : t \in TyArgs}

\* C22: every inherent candidate delivered, in either mode, is of an impl
\* whose declared Self type unifies with the self type scanned (the self type
\* is an instance of it); the items of an impl that shares only the
\* fingerprint, as impl W<bool> looked up on W<S>, are not delivered.
C22_ImplSelfTyUnifies ==
    \A j \in DOMAIN calls :
        calls[j].kind = "inherent" =>
            /\ calls[j].ty \in Instances(ImplTable[ImplOf(calls[j])])
            /\ for_impl(ImplTable[ImplOf(calls[j])].self_ty) = for_impl(calls[j].ty)
            /\ (calls[j].ty = TyWS => calls[j].item # "W_flag")

\* A method call on W<S> ran to its end: bar of impl<T> W<T> was delivered,
\* flag of impl W<bool>, which is in the same bucket, was not
C22_Witness ==
    /\ mode = "MethodCall" /\ gen = <<Canonical(TyWS, 0)>> /\ name = None
    /\ pos.pc = "done" /\ NeverAccepted
    /\ 8 \in Range(InherentImpls(gen[1]))
    /\ inherent_impl_substs(8, gen[1]) = None
    /\ \E j \in DOMAIN calls : calls[j].item = "W_bar" /\ calls[j].ty = TyWS
    /\ \A j \in DOMAIN calls : calls[j].item # "W_flag"

(***************************************************************************)
(* The sources of the trait universe                                       *)
(***************************************************************************)
\* Source (1): the trait of a dyn Trait self type and its supertraits
DynSource(self_ty) ==
    IF self_ty = Canonical(TyDynT1, 0) THEN <<"T1", "T0">> ELSE <<>>

\* Source (2): the traits bound on a type parameter in the environment
EnvSource(self_ty) ==
    IF self_ty = Canonical(TyP, 0) THEN <<"T2">> ELSE <<>>

\* The source the c-th trait scanned at the self type is of
SourceOf(self_ty, c) ==
    IF c <= Len(DynSource(self_ty)) THEN 1
    ELSE IF c <= Len(DynSource(self_ty)) + Len(EnvSource(self_ty)) THEN 2
    ELSE 3

\* The trait deliveries and the goals asked: what is scanned
TraitSteps ==
    {calls[j] : j \in TraitCalls} \cup
    {[self_ty |-> queries[j].self_ty, trait |-> queries[j].trait, c |-> queries[j].c] :
        j \in DOMAIN queries}

\* C23: the traits scanned at a self type are, in this order, (1) the trait of
\* a dyn Trait self type and its supertraits, (2) the traits bound on the self
\* type in the environment when it is a type parameter, (3) the caller's
\* traits in scope: the c-th trait scanned is the c-th of that concatenation,
\* so a trait in none of the three yields nothing, and within the scan of one
\* self type the deliveries follow the order of the sources.
C23_SourcesInOrder ==
    /\ \A x \in TraitSteps :
          LET universe == DynSource(x.self_ty) \o EnvSource(x.self_ty) \o traits_in_scope
          IN  x.c \in DOMAIN universe /\ universe[x.c] = x.trait
    /\ \A a, b \in TraitCalls :
          (a < b /\ Scan(calls[a]) = Scan(calls[b]))
              => SourceOf(calls[a].self_ty, calls[a].c) <= SourceOf(calls[b].self_ty, calls[b].c)

\* A path lookup on dyn T1 with T2 and T1 in scope ran to its end: an item of
\* T1, then the item of its supertrait T0, then items of T2 and again of T1
\* from the traits in scope
C23_Witness ==
    /\ mode = "Path" /\ ty = Canonical(TyDynT1, 0) /\ traits_in_scope = <<"T2", "T1">>
    /\ pos.pc = "done"
    /\ \E a, b, c, d \in TraitCalls :
          /\ a < b /\ b < c /\ c < d
          /\ calls[a].trait = "T1" /\ calls[a].c = 1
          /\ calls[b].trait = "T0" /\ calls[b].c = 2
          /\ calls[c].trait = "T2" /\ calls[c].c = 3
          /\ calls[d].trait = "T1" /\ calls[d].c = 4

(***************************************************************************)
(* inherent_impl_substs and transform_receiver_ty as functions of their    *)
(* arguments: one call of each on an impl, a function and a self type      *)
(***************************************************************************)
FunctionIds == {it \in Items : ItemTable[it].kind = "FunctionId"}

\* The self types handed in: closed types, types holding Unknown, and
\* canonical types with one variable of their own
SubstTys ==
    {Canonical(t, 0) : t \in {TyS, TyWS, TyW(TyBool), TyW(TyUnknown), TyW(TyW(TyUnknown)),
                              TyRefS, TySliceS, apply_one("Slice", TyUnknown), TyP,
                              TyUnknown}}
    \cup {Canonical(t, 1) : t \in {TyBound(0), TyW(TyBound(0)), TyW(TyW(TyBound(0))),
                                   apply_one("Slice", TyBound(0)), TyWS}}

InherentImplSubsts ==
    /\ substs_res = None
    /\ substs_res' = Some(inherent_impl_substs(impl_arg, self_ty_arg))
    /\ UNCHANGED <<impl_arg, fn_arg, self_ty_arg, receiver_res>>
    /\ UNCHANGED <<searchVars, fpVars, mergeVars, graphVars, fillVars>>

TransformReceiverTy ==
    /\ receiver_res = None
    /\ receiver_res' = Some(transform_receiver_ty(fn_arg, self_ty_arg))
    /\ UNCHANGED <<impl_arg, fn_arg, self_ty_arg, substs_res>>
    /\ UNCHANGED <<searchVars, fpVars, mergeVars, graphVars, fillVars>>

InitSubst ==
    /\ impl_arg \in ImplIds /\ fn_arg \in FunctionIds /\ self_ty_arg \in SubstTys
    /\ substs_res = None /\ receiver_res = None
    /\ fp_ty = None /\ fp_res = None
    /\ SearchOff /\ MergeOff /\ GraphOff

NextSubst ==
    \/ InherentImplSubsts
    \/ TransformReceiverTy

SpecSubst == InitSubst /\ [][NextSubst]_vars

\* The impl's Self type over fresh variables numbered after self_ty's own
ImplSelfTyWithVars(impl_id, self_ty) ==
    LET n == ImplTable[impl_id].generics
    IN  Canonical(subst_bound_vars(ImplTable[impl_id].self_ty,
                                   [j \in 1..n |-> TyBound(self_ty.num_vars + j - 1)]),
                  n + self_ty.num_vars)

\* out is sol with every variable of index >= num_vars replaced by Unknown
\* and every other part of it kept
RECURSIVE UnknownFrom(_, _, _)
UnknownFrom(sol, out, num_vars) ==
    IF sol.kind = "Bound"
    THEN out = (IF sol.idx >= num_vars THEN TyUnknown ELSE sol)
    ELSE IF sol.kind = "Apply"
    THEN /\ out.kind = "Apply" /\ out.ctor = sol.ctor
         /\ Len(out.params) = Len(sol.params)
         /\ \A j \in 1..Len(sol.params) : UnknownFrom(sol.params[j], out.params[j], num_vars)
    ELSE out = sol

\* The variables of a type
RECURSIVE BoundVarsOf(_)
BoundVarsOf(t) ==
    IF t.kind = "Bound" THEN {t.idx}
    ELSE IF t.kind = "Apply" THEN UNION {BoundVarsOf(t.params[j]) : j \in 1..Len(t.params)}
    ELSE {}

\* C24: inherent_impl_substs(impl, self_ty) is none exactly when unifying
\* the impl's Self type (over fresh variables numbered after self_ty's own)
\* with self_ty fails; when it succeeds the result has one entry per generic
\* parameter of the impl, each the solution of that parameter with every
\* variable of index >= self_ty.num_vars replaced by Unknown and the
\* variables of index < self_ty.num_vars kept
C24_InherentImplSubsts ==
    substs_res # None =>
        LET res == substs_res[1]
            n == ImplTable[impl_arg].generics
            solution == unify(ImplSelfTyWithVars(impl_arg, self_ty_arg), self_ty_arg)
        IN  /\ (res = None) <=> (solution = None)
            /\ res # None =>
                  /\ Len(res[1]) = n
                  /\ \A j \in 1..n :
                        /\ UnknownFrom(suffix(solution[1], n)[j], res[1][j], self_ty_arg.num_vars)
                        /\ \A b \in BoundVarsOf(res[1][j]) : b < self_ty_arg.num_vars

\* impl<T> W<T> against W<{unknown}>: T stays unsolved and comes back as
\* Unknown; against the canonical W<W<?0>> it is solved to W<?0>, kept
C24_Witness ==
    \/ /\ impl_arg = 2 /\ self_ty_arg = Canonical(TyW(TyUnknown), 0)
       /\ substs_res = Some(Some(<<TyUnknown>>))
    \/ /\ impl_arg = 2 /\ self_ty_arg = Canonical(TyW(TyW(TyBound(0))), 1)
       /\ substs_res = Some(Some(<<TyW(TyBound(0))>>))

\* The substitution transform_receiver_ty is to apply: Self |-> self_ty and
\* Unknown for the other generics of a trait function, the impl's
\* substitution for a function of an inherent impl (none: the impl does not
\* apply)
ReceiverSubsts(function_id, self_ty) ==
    LET f == ItemTable[function_id]
    IN  IF f.container.kind = "TraitId"
        THEN Some(<<self_ty.value>> \o [j \in 2..f.generics |-> TyUnknown])
        ELSE inherent_impl_substs(f.container.impl, self_ty)

ScanItems(loop, self_ty) ==
    UNION {{<<self_ty, it>> : it \in Range(ItemsIn(loop, c))} :
             c \in Range(ContainersAt(loop, self_ty))}

LoopItems(loop, walk) == UNION {ScanItems(loop, walk[k]) : k \in 1..Len(walk)}

\* A call transform_receiver_ty(item, self_ty) that neither reads past the
\* parameters nor gets to the ContainerId arm
SafeTransform(item, self_ty) ==
    /\ ItemTable[item].has_self_param
    /\ ItemTable[item].params # <<>>
    /\ ItemTable[item].container.kind \in {"ImplId", "TraitId"}
    /\ transform_receiver_ty(item, self_ty) # Some(TyPanic)

\* Every deref level and receiver variant of a method call
Variants == {[pos EXCEPT !.i = i, !.v = v, !.k = 1] : i \in 1..Len(deref_chain), v \in 1..3}

\* C30: whenever the search has is_valid_candidate call
\* transform_receiver_ty, the function has a self parameter, so params()[0]
\* is in bounds, and its container is an impl or a trait. Checked for every
\* item of every loop the call can run (when the call begins) and for every
\* item of the loop the search is in; and an item that is valid with a
\* receiver is one transform_receiver_ty was called on
C30_TransformOnlyWithSelfParam ==
    /\ pos.pc = "start" /\ mode = "MethodCall" =>
          \A p \in Variants : \A loop \in {"inherent", "trait"} :
              \A x \in LoopItems(loop, Walk(p)) :
                  calls_transform_receiver_ty(name, ReceiverTy(p), x[2]) => SafeTransform(x[2], x[1])
    /\ pos.pc \in {"inherent", "trait"} =>
          \A x \in LoopItems(pos.pc, <<SelfTy(pos)>>) :
              /\ calls_transform_receiver_ty(name, ReceiverTy(pos), x[2]) => SafeTransform(x[2], x[1])
              /\ ( /\ ReceiverTy(pos) # None /\ ItemTable[x[2]].kind = "FunctionId"
                    /\ is_valid_candidate(name, ReceiverTy(pos), x[2], x[1]) )
                  => calls_transform_receiver_ty(name, ReceiverTy(pos), x[2])

\* A method call without a name filter delivers bar of impl S at S: the scan
\* of that impl went past fn make(), which has no parameter, and called
\* transform_receiver_ty for bar
C30_Witness ==
    /\ mode = "MethodCall" /\ name = None
    /\ \E j \in DOMAIN calls :
          /\ calls[j].item = "S_bar" /\ calls[j].kind = "inherent"
          /\ "S_make" \in Range(ImplTable[ImplOf(calls[j])].items)
          /\ ~calls_transform_receiver_ty(name, Some(calls[j].self_ty), "S_make")
          /\ calls_transform_receiver_ty(name, Some(calls[j].self_ty), "S_bar")

(***************************************************************************)
(* CrateImplDefs::fill on the impls of one crate, one impl at a time, and  *)
(* all_impls on the index it built                                         *)
(***************************************************************************)
\* The impls a crate may declare: inherent impls of S (two), W<T>, W<bool>
\* and dyn T1 (no fingerprint), impls of T1 for &S and &W<S> and of T2 for T
\* (no fingerprint)
FillImpls == {1, 2, 4, 5, 6, 7, 8, 10}

MaxFill == 3

\* The sequences without repetition of at most n elements of S
RECURSIVE SeqsWithoutRepetition(_, _)
SeqsWithoutRepetition(S, n) ==
    IF n = 0 THEN {<<>>}
    ELSE {<<>>} \cup UNION {{<<x>> \o q : q \in SeqsWithoutRepetition(S \ {x}, n - 1)} : x \in S}

\* The orders a hash map can be iterated in
RECURSIVE Orders(_)
Orders(S) ==
    IF S = {} THEN {<<>>} ELSE UNION {{<<x>> \o q : q \in Orders(S \ {x})} : x \in S}

\* map.values(), in each order the map can yield them
values(map) == {[j \in 1..Len(o) |-> map[o[j]]] : o \in Orders(DOMAIN map)}

\* impls_by_trait.values().flat_map(|m| m.values()), in each order
flat_map_values(by_trait) ==
    {Flatten([j \in 1..Len(o) |-> f[o[j]]]) :
        o \in Orders(DOMAIN by_trait),
        f \in {g \in [DOMAIN by_trait -> UNION {values(by_trait[t]) : t \in DOMAIN by_trait}] :
                 \A t \in DOMAIN by_trait : g[t] \in values(by_trait[t])}}

\* CrateImplDefs::all_impls: what the iterator can yield
all_impls(defs) ==
    {Flatten(a \o b) : a \in values(defs.inherent_impls),
                       b \in flat_map_values(defs.impls_by_trait)}

\* One iteration of fill's inner loop
FillImpl ==
    /\ fill_n < Len(fill_impls)
    /\ fill_res' = fill_one(fill_res, fill_impls[fill_n + 1])
    /\ fill_n' = fill_n + 1
    /\ UNCHANGED <<fill_impls, fill_all>>
    /\ UNCHANGED <<searchVars, fpVars, substVars, mergeVars, deps, decl, own, from_deps>>

\* all_impls is called on the filled index and iterated to its end
AllImpls ==
    /\ fill_n = Len(fill_impls) /\ fill_all = None
    /\ \E yielded \in all_impls(fill_res) : fill_all' = Some(yielded)
    /\ UNCHANGED <<fill_impls, fill_n, fill_res>>
    /\ UNCHANGED <<searchVars, fpVars, substVars, mergeVars, deps, decl, own, from_deps>>

InitFill ==
    /\ fill_impls \in SeqsWithoutRepetition(FillImpls, MaxFill)
    /\ fill_n = 0 /\ fill_res = EmptyDefs /\ fill_all = None
    /\ deps = None /\ decl = None /\ own = None /\ from_deps = None
    /\ SearchOff /\ FpOff /\ MergeOff

NextFill ==
    \/ FillImpl
    \/ AllImpls

SpecFill == InitFill /\ [][NextFill]_vars

\* The impls fill has gone through
Filled == {fill_impls[j] : j \in 1..fill_n}

\* The buckets of the index that hold id
InInherent(defs, id) ==
    {fp \in DOMAIN defs.inherent_impls : id \in Range(defs.inherent_impls[fp])}

InByTrait(defs, id) ==
    UNION {{<<t, fp>> : fp \in {x \in DOMAIN defs.impls_by_trait[t] :
                                   id \in Range(defs.impls_by_trait[t][x])}} :
             t \in DOMAIN defs.impls_by_trait}

\* C26: in the index fill builds for a crate, an impl of a trait is in the
\* bucket (its trait, the fingerprint of its self type or None) and in no
\* other, an inherent impl is in the bucket of its self type's fingerprint
\* and in no other if the fingerprint exists and in no bucket if not; an
\* impl is once in its bucket; all_impls yields no impl twice, and yields
\* the impls that are in a bucket
C26_EachImplInOneBucketOnce ==
    /\ \A id \in ImplIds :
          LET tr == ImplTable[id].trait
              fp == for_impl(ImplTable[id].self_ty)
          IN  /\ InInherent(fill_res, id) =
                    (IF id \in Filled /\ tr = None /\ fp # None THEN {fp[1]} ELSE {})
              /\ InByTrait(fill_res, id) =
                    (IF id \in Filled /\ tr # None THEN {<<tr[1], fp>>} ELSE {})
              /\ \A b \in InInherent(fill_res, id) :
                    Occurrences(fill_res.inherent_impls[b], id) = 1
              /\ \A b \in InByTrait(fill_res, id) :
                    Occurrences(fill_res.impls_by_trait[b[1]][b[2]], id) = 1
    /\ fill_all # None =>
          /\ \A id \in ImplIds : Occurrences(fill_all[1], id) <= 1
          /\ Range(fill_all[1]) =
                {id \in Filled : ImplTable[id].trait # None
                                   \/ for_impl(ImplTable[id].self_ty) # None}

\* A crate declaring impl S, impl dyn T1 and impl<T> T2 for T: impl S is in
\* the bucket Adt(S), the impl of T2 in (T2, None), impl dyn T1 in none
C26_Witness ==
    /\ Range(fill_impls) = {1, 5, 10}
    /\ fill_all # None /\ Range(fill_all[1]) = {1, 5}
    /\ fill_res.inherent_impls = [x \in {"Adt(S)"} |-> <<1>>]
    /\ fill_res.impls_by_trait = [t \in {"T2"} |-> [x \in {None} |-> <<5>>]]

\* The members of an index: <<trait ("" for the inherent impls), key of the
\* bucket, impl>>
BucketMembers(defs) ==
    UNION {{<<"", Some(fp), id>> : id \in Range(defs.inherent_impls[fp])} :
             fp \in DOMAIN defs.inherent_impls}
    \cup UNION {UNION {{<<t, fp, id>> : id \in Range(defs.impls_by_trait[t][fp])} :
                         fp \in DOMAIN defs.impls_by_trait[t]} :
                  t \in DOMAIN defs.impls_by_trait}

\* The members of the own indices of a set of crates
OwnMembers(krates) == UNION {BucketMembers(impls_in_crate_of(k)) : k \in krates}

\* C27: on an acyclic crate graph impls_from_deps_query(K) has a result, and
\* the members of its buckets are those of the own indices of the crates K
\* reaches through one or more dependency edges, bucket by bucket; K is not
\* among these crates and no impl declared in K is in the result; merged
\* with K's own index it holds the members of K and of the crates K reaches
C27_FromDepsIsReachableOwn ==
    \A krate \in GraphCrates :
        from_deps[krate] # None =>
            /\ BucketMembers(from_deps[krate][1]) = OwnMembers(TransitiveDeps(krate))
            /\ krate \notin TransitiveDeps(krate)
            /\ \A x \in BucketMembers(from_deps[krate][1]) : x[3] \notin Range(decl[krate])
            /\ BucketMembers(merge(from_deps[krate][1], impls_in_crate_of(krate)))
                  = OwnMembers({krate} \cup TransitiveDeps(krate))

\* The chain app -> left -> right -> base with impl S declared in base, the
\* impl of T1 for &S in app and the other impl S in left: the result for app
\* holds the impl of base, three edges away, and not the impl of app
C27_Witness ==
    /\ deps["app"] = <<"left">> /\ deps["left"] = <<"right">> /\ deps["right"] = <<"base">>
    /\ decl["base"] = <<1>> /\ decl["app"] = <<4>> /\ decl["left"] = <<6>>
    /\ from_deps["app"] # None
    /\ BucketMembers(from_deps["app"][1]) = {<<"", Some("Adt(S)"), 1>>, <<"", Some("Adt(S)"), 6>>}

\* The receiver types of deref level i: D[i], &D[i], &mut D[i]
ReceiverTysAt(i) ==
    {deref_chain[i], refed(deref_chain[i], RefShared), refed(deref_chain[i], RefMut)}

\* C28: every candidate delivered in MethodCall mode is a function with a
\* self parameter whose name is the name filter's when one is given; the
\* self type it is delivered at is an element of D[i..] or the autoref type
\* &D[i] or &mut D[i] of the level i being processed, and its transformed
\* receiver type at that self type is D[i], &D[i] or &mut D[i]. (Stated of
\* the latest delivery: every delivery is the latest in the state it is
\* made in.)
C28_DeliveredPassesFilters ==
    (mode = "MethodCall" /\ calls # <<>>) =>
        LET call == calls[Len(calls)]
            data == ItemTable[call.item]
        IN  /\ data.kind = "FunctionId" /\ data.has_self_param
            /\ name # None => data.name = name
            /\ call.i \in 1..Len(deref_chain)
            /\ \/ \E m \in call.i..Len(deref_chain) : call.self_ty = deref_chain[m]
               \/ call.self_ty \in {refed(deref_chain[call.i], RefShared),
                                    refed(deref_chain[call.i], RefMut)}
            /\ \E r \in ReceiverTysAt(call.i) :
                  transform_receiver_ty(call.item, call.self_ty) = Some(r.value)

\* A delivery of the second deref level: a trait's bar(&self) at the self
\* type D[2], its receiver type there being the shared autoref &D[2]
C28_Witness ==
    /\ mode = "MethodCall"
    /\ \E j \in DOMAIN calls :
          /\ calls[j].i = 2 /\ calls[j].v = 2 /\ calls[j].kind = "trait"
          /\ ItemTable[calls[j].item].name = Some("bar")
          /\ calls[j].self_ty = deref_chain[2]
          /\ transform_receiver_ty(calls[j].item, calls[j].self_ty)
                = Some(refed(deref_chain[2], RefShared).value)

\* The traits scanned at a self type when the in-scope set is iterated in the
\* order scope
UniverseWithScope(self_ty, scope) == DynSource(self_ty) \o EnvSource(self_ty) \o scope

\* The first item of a trait scan that passes the filters, the traits being
\* gone through in the order given
FirstPassing(receiver_ty, self_ty, traits) ==
    LET cands == ScanCands("trait", receiver_ty, self_ty, traits, 1)
        first == CHOOSE x \in cands : \A y \in cands : Before(x, y)
    IN  IF cands = {} THEN None ELSE Some(trait_items(traits[first[2]])[first[3]])

\* lookup_method has returned a trait's function: the callback accepted the
\* first candidate it was given, and the solver found every trait it was
\* asked about implemented
LookupReturnedTraitMethod ==
    /\ mode = "MethodCall" /\ name # None /\ pos.pc = "done"
    /\ Len(calls) = 1 /\ calls[1].accepted /\ calls[1].kind = "trait"
    /\ \A j \in DOMAIN queries : queries[j].answer # None

\* C29: what lookup_method returns does not depend on the order the set of
\* in-scope traits is iterated in: with the same inputs and a solver that
\* finds the traits implemented, under every order of the same set the first
\* candidate of the scan that produced the result is the function returned
C29_OrderIndependent ==
    LookupReturnedTraitMethod =>
        \A scope \in Orders(Range(traits_in_scope)) :
            FirstPassing(ReceiverTy(calls[1]), calls[1].self_ty,
                         UniverseWithScope(calls[1].self_ty, scope))
                = Some(slot[1].item)

\* bar on an array of S (deref chain [[S; _], [S]]), T1 and T2 in scope in
\* this order, both found implemented for [S]: returned is T1's bar, and
\* T2's bar is the first candidate in the other order
C29_Witness ==
    /\ LookupReturnedTraitMethod
    /\ name = Some("bar") /\ traits_in_scope = <<"T1", "T2">>
    /\ slot[1].item = "T1_bar"
    /\ FirstPassing(ReceiverTy(calls[1]), calls[1].self_ty,
                    UniverseWithScope(calls[1].self_ty, <<"T2", "T1">>)) = Some("T2_bar")


====
